---- MODULE Spec2Model ----
(***************************************************************************)
(* ace-tool: the incremental synchronisation pass of IndexManager          *)
(* (src/src/index/manager.ts) and the adaptive upload strategy             *)
(* (src/src/config.ts).                                                    *)
(*                                                                         *)
(* A blob is a record [path, content]; a path is a one-element tuple       *)
(* <<file>> and a content a one-element tuple <<version>>, so that the     *)
(* blob name, the digest of path followed by content, is the tuple         *)
(* path \o content.                                                        *)
(***************************************************************************)
EXTENDS Integers, Sequences, FiniteSets, TLC

\* ------------------------------------------------------------------ bounds
\* Projects of 1..NSmall blobs are explored next to the two sizes at which
\* the strategy changes shape (see ProjectSizes).
NSmall == 2
\* File contents are the versions 0..MaxVersion.
MaxVersion == 1
\* Number of synchronize passes of one behaviour.
MaxPasses == 2
\* Number of attempts of upload requests that do not end in a complete
\* confirmation (failures, empty and short blob_names lists).
MaxFaults == 3
\* Number of edits and deletions of project files between passes.
MaxEdits == 1
\* Number of such attempts in the one pass over the medium project.
MediumFaults == 3
\* search_context calls explored, and the failed requests and failed writes
\* of the manifest among them.
SearchCalls == 2
SearchFaults == 2
SearchWrites == 1
\* Lengths of the paths and contents given to calculateBlobName.
MaxPathLen == 2
MaxContentLen == 2
\* Length of the texts given to splitFileContent, and the values of
\* maxLinesPerBlob, 1..MaxLines.
MaxTextLen == 4
MaxLines == 2
\* Number of ids of the manifests given to saveIndex.
MaxManifest == 2
\* The values of maxRetries given to retryRequest, 1..MaxAttempts.
MaxAttempts == 3
\* The blob counts given to getUploadStrategy lie within Spread of 0 and of
\* each count at which the strategy changes.
Spread == 1
\* Number of blobs of the project two overlapping calls work on.
OverlapBlobs == 2
\* Number of failed attempts in the one pass explored with every class of
\* failure.
FaultBudget == 5
\* A manifest found by a pass holds at most ResumeIds ids, and the pass meets
\* at most ResumeFaults attempts that are not fully confirmed.
ResumeIds == 3
ResumeFaults == 2
\* A directory walked on its own holds at most MaxEntries entries.
MaxEntries == 2
\* Repeated passes: ConvergePasses passes, of which ConvergeFaults attempts
\* fail or are answered without names.
ConvergePasses == 4
ConvergeFaults == 1

\* ------------------------------------------------------- program constants
maxRetryRounds == 3
maxRetries == 3

Null == "null"

\* ------------------------------------------------------------- pure parts

\* Variant of getUploadStrategy whose largest scale has the timeout of the
\* medium one.
getUploadStrategy_dip(blobCount) ==
    IF blobCount < 100
    THEN [batchSize |-> 10, concurrency |-> 1, timeout |-> 30000]
    ELSE IF blobCount < 500
    THEN [batchSize |-> 30, concurrency |-> 2, timeout |-> 45000]
    ELSE IF blobCount < 2000
    THEN [batchSize |-> 50, concurrency |-> 3, timeout |-> 60000]
    ELSE [batchSize |-> 70, concurrency |-> 4, timeout |-> 45000]

\* getUploadStrategy(blobCount)
getUploadStrategy(blobCount) ==
    IF blobCount < 100
    THEN [batchSize |-> 10, concurrency |-> 1, timeout |-> 30000]
    ELSE IF blobCount < 500
    THEN [batchSize |-> 30, concurrency |-> 2, timeout |-> 45000]
    ELSE IF blobCount < 2000
    THEN [batchSize |-> 50, concurrency |-> 3, timeout |-> 60000]
    ELSE [batchSize |-> 70, concurrency |-> 4, timeout |-> 90000]

\* calculateBlobName(filePath, content): the digest of the bytes of the path
\* followed by the bytes of the content.
calculateBlobName(filePath, content) == filePath \o content

Min(a, b) == IF a < b THEN a ELSE b
Max(a, b) == IF a > b THEN a ELSE b

\* Array.prototype.slice(from, to) on 0-based indices, as a 1-based sequence.
Slice(s, from, to) == SubSeq(s, from + 1, Min(to, Len(s)))

SeqToSet(s) == {s[k] : k \in DOMAIN s}

\* Array.prototype.map: the sequence f[1], ..., f[n], each element computed once.
Map(f) == SubSeq(f, 1, Len(f))

\* The keys of a Map filled in the order of s: each value once, at the place
\* of its first occurrence.
At(s, indices) == Map([j \in 1..Len(indices) |-> s[indices[j]]])
Dedup(s) ==
    At(s, SelectSeq([k \in 1..Len(s) |-> k],
                    LAMBDA k : \A m \in 1..(k - 1) : s[m] # s[k]))

\* ----------------------------------------------------------------- state
VARIABLES
    tree,                   \* the project: file -> content version
    indexFile,              \* the persisted manifest (index.json)
    pc,                     \* position of the pass: idle, loop, group, await, done
    passes,                 \* passes started
    blobs,                  \* collectFiles() of the current pass
    existingBlobNames,      \* new Set(loadIndex())
    existingHashes,
    blobsToUpload,
    uploadedBlobNames,
    fatalError,
    strategy,
    pendingBlobs,
    currentBatchSize,
    retryRound,
    batches,
    groupStart,             \* i of the dispatch loop (0-based)
    failedBlobsInThisRound,
    inflight,               \* the requests of the current group
    result,                 \* the IndexResult returned by the last pass
    faults,                 \* attempts whose outcome is not one of limits.free
    limits,                 \* how many passes, faults and edits a behaviour
                            \* explores, and the outcomes it has without limit
    edits,                  \* edits and deletions made so far
    h_returned,             \* ids ever returned in a blob_names list
    h_confirmed,            \* ids returned, of blobs unchanged since
    h_passReturned,         \* ids returned in a blob_names list of this pass
    h_sentIds,              \* ids of the blobs placed in requests of this pass
    h_got401,               \* an upload attempt of this pass received HTTP 401
    h_failed,               \* an upload attempt of this pass failed
    h_dirty,                \* the tree changed since the last discovery
    h_unchanged,            \* this pass saw the tree of the previous pass
    h_prev,                 \* status and coverage of the previous pass
    h_owed,                 \* ids of blobs whose batch failed softly after the
                            \* retries of a transient failure, not sent since
    h_placed,               \* batches each blob was placed in, in this pass
                            \* and in this round
    writeFaults,            \* writes of the manifest file that failed so far
    h_writeFailed,          \* a write of the manifest failed in this pass
    tool,                   \* the search_context call: where it is, its text
    h_tool,                 \* calls made, IndexManagers created, queries sent
    hashed,                 \* two blobs and their calculateBlobName
    split,                  \* a text and its splitFileContent
    store,                  \* the bytes of a manifest file while it is saved
    retry,                  \* one retryRequest call: attempts, waits, outcome
    strat,                  \* two blob counts and their getUploadStrategy
    overlap,                \* two IndexManagers on the manifest of one project
    walk                    \* walkDir over the entries of one directory

passVars == <<blobs, existingBlobNames, existingHashes, blobsToUpload,
              uploadedBlobNames, fatalError, strategy, pendingBlobs,
              currentBatchSize, retryRound, batches, groupStart,
              failedBlobsInThisRound, inflight>>
histVars == <<h_returned, h_confirmed, h_passReturned, h_sentIds, h_got401,
              h_failed, h_dirty,
              h_unchanged, h_prev, h_owed, h_placed>>
diskVars == <<writeFaults, h_writeFailed>>
toolVars == <<tool, h_tool>>
moreVars == <<retry, strat, overlap, walk>>
sideVars == <<hashed, split, store, moreVars>>
vars == <<tree, indexFile, pc, passes, result, faults, edits, limits, passVars,
          histVars, diskVars, toolVars, sideVars>>

\* -------------------------------------------------------------- universe
\* The first blob count whose strategy uploads two batches at a time.
MediumSize ==
    CHOOSE n \in 1..200 :
        /\ getUploadStrategy(n).concurrency > 1
        /\ \A m \in 1..(n - 1) : getUploadStrategy(m).concurrency = 1

\* 0..NSmall blobs and the first size needing two batches.
ProjectSizes == (0..NSmall) \cup {getUploadStrategy(1).batchSize + 1}

MaxFile == MediumSize
Versions == 0..MaxVersion

NoResult == [status |-> "none"]

\* ----------------------------------------------------------- manifest io
\* The manifest file is [exists, json, data]: json is what reading and
\* parsing its text gives ("array", "string", "null", "object", "number",
\* "invalid" when JSON.parse throws, "unreadable" when readFileSync throws)
\* and data the elements of an array or the characters of a string.
NoFile == [exists |-> FALSE, json |-> "array", data |-> << >>]
EmptyArray == [json |-> "array", data |-> << >>]

\* loadIndex(): [] when the file does not exist or reading or parsing it
\* throws, else whatever value JSON.parse returned.
loadIndex(file) ==
    IF ~file.exists THEN EmptyArray
    ELSE IF file.json \in {"unreadable", "invalid"} THEN EmptyArray
    ELSE [json |-> file.json, data |-> file.data]

\* new Set(value) throws a TypeError on a value that is neither iterable
\* nor null or undefined.
NewSetThrows(value) == value.json \in {"object", "number"}

\* new Set(value): the elements of an array, the characters of a string,
\* nothing for null.
NewSet(value) ==
    IF value.json \in {"array", "string"} THEN SeqToSet(value.data) ELSE {}

\* saveIndex(blobNames) when the write succeeds: the file holds the list.
saveIndex(blobNames) == [exists |-> TRUE, json |-> "array", data |-> blobNames]

\* What fs.writeFileSync can do: write the whole text, fail before touching
\* the file, or fail after truncating it or writing a part of the text.
WriteOutcomes(failed, budget) ==
    IF failed < budget THEN {"ok", "kept", "torn"} ELSE {"ok"}

\* The file after a write that failed.
FailedWrite(file, w) ==
    IF w = "torn" THEN [exists |-> TRUE, json |-> "invalid", data |-> << >>]
    ELSE file


\* Variant of saveIndexThrows in which saveIndex swallows the error.
saveIndexThrows_never(w) == FALSE

\* The catch block of saveIndex logs and throws the error again.
saveIndexThrows(w) == w # "ok"

\* ------------------------------------------------------------- discovery
\* collectFiles(): one blob per file, in directory order.
BlobsOf(t, present) ==
    Map([k \in 1..Len(present) |->
            [path |-> <<present[k]>>, content |-> <<t[present[k]]>>]])
collectFiles(t) ==
    BlobsOf(t, SelectSeq([f \in 1..MaxFile |-> f], LAMBDA f : f \in DOMAIN t))

BlobName(b) == calculateBlobName(b.path, b.content)

\* blobHashMap.keys(): the hashes in first-insertion order.
BlobNames(bs) == Map([k \in 1..Len(bs) |-> BlobName(bs[k])])
allBlobHashes(bs) == Dedup(BlobNames(bs))

\* blobHashMap.get(hash): the last blob set under that hash.
Last(indices) == CHOOSE k \in indices : \A m \in indices : m <= k
blobHashMapGet(bs, hash) ==
    bs[Last({k \in 1..Len(bs) : BlobName(bs[k]) = hash})]


\* Variant of BlobsToUpload that takes every discovered blob.
BlobsToUpload_all(bs, new) == bs

\* blobsToUpload: the blob of every new hash.
BlobsToUpload(bs, new) == Map([k \in 1..Len(new) |-> blobHashMapGet(bs, new[k])])


\* Variant of ExistingHashes without the test against the manifest: every
\* discovered hash counts as already uploaded.
ExistingHashes_all(hashes, existing) == hashes

\* Variant of ExistingHashes that carries nothing over from the manifest.
ExistingHashes_none(hashes, existing) == << >>

\* existingHashes: the discovered hashes the loaded manifest holds.
ExistingHashes(hashes, existing) ==
    SelectSeq(hashes, LAMBDA h : h \in existing)


\* Variant of NewHashes without the test against the manifest: every
\* discovered hash counts as new.
NewHashes_all(hashes, existing) == hashes

\* newHashes: the discovered hashes the loaded manifest does not hold.
NewHashes(hashes, existing) ==
    SelectSeq(hashes, LAMBDA h : h \notin existing)

\* ------------------------------------------------------ retry and errors
\* What one attempt of the upload POST can do: a response whose blob_names
\* holds every id of the batch, a response whose blob_names is non-empty but
\* shorter, a response with an empty or missing blob_names, or a failure.
Failures == {"http401", "http403", "cert", "ECONNREFUSED", "ETIMEDOUT",
             "ENOTFOUND", "http500", "other"}
Outcomes == {"ok", "short", "empty"} \cup Failures

\* The outcomes the passes are explored with, one of each class of the
\* upload path: confirmed, short, empty, fatal at once (401), retried and
\* then soft (timeout), retried and then fatal (DNS), unclassified.
UploadOutcomes ==
    {"ok", "short", "empty", "http401", "ETIMEDOUT", "ENOTFOUND", "other"}

MsgToken == "Token invalid or expired, update ACE_TOKEN"
MsgForbidden == "access denied, Token may be disabled"
MsgCert == "SSL certificate (zhengshu) verification failed"
MsgRefused == "cannot connect to server"
MsgTimeout == "connection timed out"
MsgDns == "cannot resolve server address"
MsgHttp500 == "Request failed with status code 500"
MsgOther == "Request failed with status code 400"
MsgEmpty == "server returned empty result"
MsgWrite == "ENOSPC: no space left on device, write"
MsgNotIterable == "object is not iterable"

\* lastError.message of a failed attempt, before any friendly rewording.
OriginalMessage(o) ==
    CASE o = "http401" -> "Request failed with status code 401"
      [] o = "http403" -> "Request failed with status code 403"
      [] o = "cert" -> "certificate has expired"
      [] o = "ECONNREFUSED" -> "connect ECONNREFUSED"
      [] o = "ETIMEDOUT" -> "connect ETIMEDOUT"
      [] o = "ENOTFOUND" -> "getaddrinfo ENOTFOUND"
      [] o = "http500" -> MsgHttp500
      [] OTHER -> MsgOther

\* isRetryable of retryRequest.
isRetryable(o) == o \in {"ECONNREFUSED", "ETIMEDOUT", "ENOTFOUND", "http500"}

\* Variant of retryRequestCatch that sleeps and tries again after every
\* retryable failure.
retryRequestCatch_again(o, attempt) ==
    IF o = "http401" THEN MsgToken
    ELSE IF o = "http403" THEN MsgForbidden
    ELSE IF o = "cert" THEN MsgCert
    ELSE IF ~isRetryable(o) THEN OriginalMessage(o)
    ELSE Null

\* The catch block of retryRequest on a failed attempt number `attempt`
\* (from 0): the error it throws, or Null when it sleeps and tries again.
retryRequestCatch(o, attempt) ==
    IF o = "http401" THEN MsgToken
    ELSE IF o = "http403" THEN MsgForbidden
    ELSE IF o = "cert" THEN MsgCert
    ELSE IF ~isRetryable(o) \/ attempt = maxRetries - 1
    THEN (CASE o = "ECONNREFUSED" -> MsgRefused
            [] o = "ETIMEDOUT" -> MsgTimeout
            [] o = "ENOTFOUND" -> MsgDns
            [] OTHER -> OriginalMessage(o))
    ELSE Null


\* Variant of isFatalError that does not take the 401 message for fatal.
isFatalError_noToken(errorMessage) ==
    errorMessage \in {MsgForbidden, MsgCert, MsgDns}

\* isFatalError of uploadBatch: the message includes 'Token', 'SSL', the
\* words for certificate, access denied or cannot resolve server.
isFatalError(errorMessage) ==
    errorMessage \in {MsgToken, MsgForbidden, MsgCert, MsgDns}

\* response.data.blob_names for a batch, by kind of response.
BlobNamesOf(o, batchBlobs) ==
    LET ids == BlobNames(batchBlobs)
    IN CASE o = "ok" -> ids
         [] o = "short" -> SubSeq(ids, 1, Len(ids) - 1)
         [] OTHER -> << >>

\* Variant of uploadBatchReturned that takes a response without names for
\* a success.
uploadBatchReturned_lenient(batchBlobNames) ==
    [success |-> TRUE, blobNames |-> batchBlobNames, error |-> Null, fatal |-> FALSE]

\* uploadBatch after retryRequest returned response.data.
uploadBatchReturned(batchBlobNames) ==
    IF Len(batchBlobNames) = 0
    THEN [success |-> FALSE, blobNames |-> << >>, error |-> MsgEmpty, fatal |-> FALSE]
    ELSE [success |-> TRUE, blobNames |-> batchBlobNames, error |-> Null, fatal |-> FALSE]

\* uploadBatch after retryRequest threw.
uploadBatchCaught(errorMessage) ==
    [success |-> FALSE, blobNames |-> << >>, error |-> errorMessage,
     fatal |-> isFatalError(errorMessage)]

NoBatchResult == [success |-> FALSE, blobNames |-> << >>, error |-> Null, fatal |-> FALSE]

\* --------------------------------------------------------- upload rounds
\* The batches of a round: pendingBlobs.slice(i, i + currentBatchSize).
RECURSIVE MakeBatches(_, _)
MakeBatches(pending, size) ==
    IF pending = << >> THEN << >>
    ELSE <<Slice(pending, 0, size)>> \o
         MakeBatches(SubSeq(pending, Min(size, Len(pending)) + 1, Len(pending)), size)

\* Variant of RoundBatchSize that halves without a minimum.
RoundBatchSize_half(size, round) ==
    IF round > 0 THEN size \div 2 ELSE size

\* currentBatchSize of a round.
RoundBatchSize(size, round) ==
    IF round > 0 THEN Max(5, size \div 2) ELSE size


\* Variant of ConcurrentBatches whose slice is one batch too long.
ConcurrentBatches_wide(bs, i, concurrency) == Slice(bs, i, i + concurrency + 1)

\* concurrentBatches = batches.slice(i, i + concurrency)
ConcurrentBatches(bs, i, concurrency) == Slice(bs, i, i + concurrency)


\* Variant of PushUploaded that drops the names of the response.
PushUploaded_drop(uploaded, r) == uploaded

\* One step of the result loop on uploadedBlobNames.
PushUploaded(uploaded, r) ==
    IF r.success THEN uploaded \o r.blobNames ELSE uploaded

\* One step of the result loop on fatalError.
SetFatal(fatal, r) ==
    IF ~r.success /\ r.fatal THEN r.error ELSE fatal


\* Variant of Requeue that also requeues the batches that succeeded.
Requeue_all(failed, r, batchBlobs) ==
    IF ~r.fatal THEN failed \o batchBlobs ELSE failed

\* One step of the result loop on failedBlobsInThisRound.
Requeue(failed, r, batchBlobs) ==
    IF ~r.success /\ ~r.fatal THEN failed \o batchBlobs ELSE failed

\* The result loop over the requests of a group, in batch order.
RECURSIVE HandleResults(_, _)
HandleResults(acc, reqs) ==
    IF reqs = << >> THEN acc
    ELSE LET q == Head(reqs)
         IN HandleResults(
                [uploaded |-> PushUploaded(acc.uploaded, q.result),
                 fatal |-> SetFatal(acc.fatal, q.result),
                 failed |-> Requeue(acc.failed, q.result, q.batchBlobs)],
                Tail(reqs))

\* saveProgress(): the list written after a group.
ProgressNames(existing, uploaded) == existing \o uploaded


\* Variant of SaveAfterGroup that leaves the saving to the end of the pass.
SaveAfterGroup_never(file, existing, uploaded) == file

\* The manifest file after the result loop of a group: saveProgress() runs
\* when anything was uploaded so far.
SaveAfterGroup(file, existing, uploaded) ==
    IF Len(uploaded) > 0 THEN saveIndex(ProgressNames(existing, uploaded)) ELSE file


\* Variant of AllSettled that resolves with the first request that has its
\* result.
AllSettled_any(reqs) == \E k \in DOMAIN reqs : reqs[k].done

\* Promise.all(uploadPromises) resolves when every request has its result.
AllSettled(reqs) == \A k \in DOMAIN reqs : reqs[k].done

\* ------------------------------------------------------- classification

\* Variant of AllBlobNames that leaves the uploaded names out.
AllBlobNames_existing(existing, uploaded) == existing

\* allBlobNames = [...existingHashes, ...uploadedBlobNames]
AllBlobNames(existing, uploaded) == existing \o uploaded

\* The messages of the results that carry stats (their counts left out).
MsgPartialFatal == "partial index saved, fix the error and retry"
MsgKeptFatal == "upload failed, existing index kept"
MsgPartial == "index partly complete, retry to continue"
MsgIndexed == "Indexed blobs"

\* The IndexResult after a fatal error.
FatalOutcome(fatal, existing, uploaded, finalFailedCount) ==
    IF Len(uploaded) > 0
    THEN [status |-> "partial_success",
          message |-> MsgPartialFatal,
          stats |-> [total_blobs |-> Len(AllBlobNames(existing, uploaded)),
                     existing_blobs |-> Len(existing),
                     new_blobs |-> Len(uploaded),
                     failed_batches |-> finalFailedCount]]
    ELSE IF Len(existing) > 0
    THEN [status |-> "partial_success",
          message |-> MsgKeptFatal,
          stats |-> [total_blobs |-> Len(existing),
                     existing_blobs |-> Len(existing),
                     new_blobs |-> 0,
                     failed_batches |-> finalFailedCount]]
    ELSE [status |-> "error", message |-> fatal]


\* Variant of SoftOutcome in which any residue makes the pass an error.
SoftOutcome_strict(existing, uploaded, finalFailedCount) ==
    IF finalFailedCount > 0
    THEN [status |-> "error", message |-> "all uploads failed"]
    ELSE [status |-> "success",
          message |-> MsgIndexed,
          stats |-> [total_blobs |-> Len(existing \o uploaded),
                     existing_blobs |-> Len(existing),
                     new_blobs |-> Len(uploaded)]]

\* The IndexResult of the upload branch without a fatal error.
SoftOutcome(existing, uploaded, finalFailedCount) ==
    IF finalFailedCount > 0 /\ Len(uploaded) = 0 /\ Len(existing) = 0
    THEN [status |-> "error", message |-> "all uploads failed"]
    ELSE IF finalFailedCount > 0
    THEN [status |-> "partial_success",
          message |-> MsgPartial,
          stats |-> [total_blobs |-> Len(AllBlobNames(existing, uploaded)),
                     existing_blobs |-> Len(existing),
                     new_blobs |-> Len(uploaded),
                     failed_files |-> finalFailedCount]]
    ELSE [status |-> "success",
          message |-> MsgIndexed,
          stats |-> [total_blobs |-> Len(AllBlobNames(existing, uploaded)),
                     existing_blobs |-> Len(existing),
                     new_blobs |-> Len(uploaded)]]

\* The IndexResult of the upload branch.
UploadResult(fatal, existing, uploaded, finalFailedCount) ==
    IF fatal # Null
    THEN FatalOutcome(fatal, existing, uploaded, finalFailedCount)
    ELSE SoftOutcome(existing, uploaded, finalFailedCount)

\* The IndexResult when nothing had to be uploaded.
NoUploadResult(existing, uploaded) ==
    [status |-> "success",
     message |-> MsgIndexed,
     stats |-> [total_blobs |-> Len(AllBlobNames(existing, uploaded)),
                existing_blobs |-> Len(existing),
                new_blobs |-> Len(uploaded)]]

\* Variant of NoFilesResult that takes a project without files for indexed.
NoFilesResult_success ==
    [status |-> "success", message |-> MsgIndexed,
     stats |-> [total_blobs |-> 0, existing_blobs |-> 0, new_blobs |-> 0]]

\* The IndexResult when collectFiles found no blob.
NoFilesResult == [status |-> "error", message |-> "No text files found in project"]

\* The catch block of indexProject: the IndexResult for a thrown error.
CaughtResult(errorMessage) == [status |-> "error", message |-> errorMessage]

\* ------------------------------------------------ values before any call
\* No retrieval request was built yet.
NoPayload == [information_request |-> Null, added_blobs |-> << >>,
              deleted_blobs |-> << >>]

\* No search_context call was made yet.
InitTool ==
    /\ tool = [at |-> "idle", text |-> << >>, attempt |-> 0]
    /\ h_tool = [calls |-> 0, managers |-> 0, retrievals |-> 0,
                 query |-> Null, projectRootPath |-> Null, payload |-> NoPayload]

\* Nothing was hashed, split or saved on its own.
NoHash == [done |-> FALSE]
NoSplit == [done |-> FALSE]
NoStore == [at |-> "none"]
NoRetry == [at |-> "none"]
NoStrategy == [done |-> FALSE]
NoOverlap == [at |-> "none"]
NoWalk == [at |-> "none"]
InitMore ==
    /\ retry = NoRetry
    /\ strat = NoStrategy
    /\ overlap = NoOverlap
    /\ walk = NoWalk
InitSide ==
    /\ hashed = NoHash
    /\ split = NoSplit
    /\ store = NoStore
    /\ InitMore

\* ---------------------------------------------------------------- actions
\* The ids of the blobs of a batch.
BatchIds(batchBlobs) == {BlobName(batchBlobs[m]) : m \in DOMAIN batchBlobs}

\* No batch was made in this pass yet.
NoPlaced == [pass |-> << >>, round |-> << >>]

\* The number of places of the batches of a group that hold blob id.
PlacesOf(id, group) ==
    Cardinality({km \in UNION {{<<k, m>> : m \in 1..Len(group[k])} :
                                  k \in 1..Len(group)} :
                    BlobName(group[km[1]][km[2]]) = id})

\* The count of the batches each blob was placed in, after a group more.
Placed(count, group) ==
    LET ids == UNION {BatchIds(group[k]) : k \in 1..Len(group)}
    IN [id \in DOMAIN count \cup ids |->
           (IF id \in DOMAIN count THEN count[id] ELSE 0) + PlacesOf(id, group)]

InitPass ==
    /\ pc = "idle"
    /\ passes = 0
    /\ blobs = << >>
    /\ existingBlobNames = {}
    /\ existingHashes = << >>
    /\ blobsToUpload = << >>
    /\ uploadedBlobNames = << >>
    /\ fatalError = Null
    /\ strategy = getUploadStrategy(0)
    /\ pendingBlobs = << >>
    /\ currentBatchSize = 0
    /\ retryRound = 0
    /\ batches = << >>
    /\ groupStart = 0
    /\ failedBlobsInThisRound = << >>
    /\ inflight = << >>
    /\ result = NoResult
    /\ faults = 0
    /\ edits = 0
    /\ h_returned = {}
    /\ h_confirmed = {}
    /\ h_passReturned = {}
    /\ h_sentIds = {}
    /\ h_got401 = FALSE
    /\ h_failed = FALSE
    /\ h_dirty = FALSE
    /\ h_unchanged = FALSE
    /\ h_prev = [status |-> "none", covered |-> FALSE, sent |-> FALSE]
    /\ h_owed = {}
    /\ h_placed = NoPlaced
    /\ writeFaults = 0
    /\ h_writeFailed = FALSE

Init ==
    /\ tree \in {[f \in 1..n |-> 0] : n \in ProjectSizes}
    /\ limits = [passes |-> MaxPasses, faults |-> MaxFaults, edits |-> MaxEdits,
                 writes |-> 0, calls |-> 0, free |-> {"ok"}]
    /\ indexFile = NoFile
    /\ InitPass
    /\ InitTool
    /\ InitSide

\* One pass over a project of the first size uploaded two batches at a time.
InitMedium ==
    /\ tree = [f \in 1..MediumSize |-> 0]
    /\ limits = [passes |-> 1, faults |-> MediumFaults, edits |-> 0, writes |-> 0,
                 calls |-> 0, free |-> {"ok"}]
    /\ indexFile = NoFile
    /\ InitPass
    /\ InitTool
    /\ InitSide

\* The project changes between two passes: a file is edited.
EditFile(f, v) ==
    /\ pc \in {"idle", "done"}
    /\ edits < limits.edits
    /\ passes < limits.passes
    /\ f \in DOMAIN tree
    /\ v # tree[f]
    /\ tree' = [tree EXCEPT ![f] = v]
    /\ edits' = edits + 1
    /\ h_dirty' = TRUE
    /\ h_confirmed' = {id \in h_confirmed : id[1] # f}
    /\ UNCHANGED <<indexFile, pc, passes, result, faults, limits, passVars,
                   h_returned, h_passReturned, h_sentIds, h_got401, h_failed,
                   h_unchanged, h_prev, h_owed, h_placed>>
    /\ UNCHANGED <<diskVars, toolVars, sideVars>>

\* The project changes between two passes: a file is deleted.
DeleteFile(f) ==
    /\ pc \in {"idle", "done"}
    /\ edits < limits.edits
    /\ passes < limits.passes
    /\ f \in DOMAIN tree
    /\ tree' = [g \in DOMAIN tree \ {f} |-> tree[g]]
    /\ edits' = edits + 1
    /\ h_dirty' = TRUE
    /\ h_confirmed' = {id \in h_confirmed : id[1] # f}
    /\ UNCHANGED <<indexFile, pc, passes, result, faults, limits, passVars,
                   h_returned, h_passReturned, h_sentIds, h_got401, h_failed,
                   h_unchanged, h_prev, h_owed, h_placed>>
    /\ UNCHANGED <<diskVars, toolVars, sideVars>>

\* indexProject from its call to the first upload round, or to its return
\* when there is nothing to discover, when reading the manifest into a Set
\* throws, or when there is nothing to upload.
indexProjectStart ==
    /\ pc \in {"idle", "done"}
    /\ passes < limits.passes
    /\ passes' = passes + 1
    /\ \E bs \in {collectFiles(tree)}, value \in {loadIndex(indexFile)},
          w \in WriteOutcomes(writeFaults, limits.writes) :
         \E hashes \in {allBlobHashes(bs)}, loaded \in {NewSet(value)} :
          \E existing \in {ExistingHashes(hashes, loaded)},
             new \in {NewHashes(hashes, loaded)} :
           \E toUpload \in {BlobsToUpload(bs, new)} :
              /\ blobs' = bs
              /\ uploadedBlobNames' = << >>
              /\ fatalError' = Null
              /\ retryRound' = 0
              /\ batches' = << >>
              /\ groupStart' = 0
              /\ failedBlobsInThisRound' = << >>
              /\ inflight' = << >>
              /\ IF bs = << >> \/ NewSetThrows(value)
                 THEN /\ w = "ok"
                      /\ result' = IF bs = << >> THEN NoFilesResult
                                   ELSE CaughtResult(MsgNotIterable)
                      /\ pc' = "done"
                      /\ existingBlobNames' = {}
                      /\ existingHashes' = << >>
                      /\ blobsToUpload' = << >>
                      /\ pendingBlobs' = << >>
                      /\ strategy' = getUploadStrategy(0)
                      /\ currentBatchSize' = 0
                      /\ UNCHANGED <<indexFile, writeFaults>>
                      /\ h_writeFailed' = FALSE
                 ELSE /\ existingBlobNames' = loaded
                      /\ existingHashes' = existing
                      /\ blobsToUpload' = toUpload
                      /\ pendingBlobs' = toUpload
                      /\ strategy' = getUploadStrategy(Len(toUpload))
                      /\ currentBatchSize' = getUploadStrategy(Len(toUpload)).batchSize
                      /\ IF Len(toUpload) > 0
                         THEN /\ w = "ok"
                              /\ pc' = "loop"
                              /\ UNCHANGED <<indexFile, result, writeFaults>>
                              /\ h_writeFailed' = FALSE
                         ELSE /\ indexFile' =
                                    IF w = "ok"
                                    THEN saveIndex(AllBlobNames(existing, << >>))
                                    ELSE FailedWrite(indexFile, w)
                              /\ result' =
                                    IF saveIndexThrows(w)
                                    THEN CaughtResult(MsgWrite)
                                    ELSE NoUploadResult(existing, << >>)
                              /\ writeFaults' =
                                    IF w = "ok" THEN writeFaults
                                    ELSE writeFaults + 1
                              /\ h_writeFailed' = (w # "ok")
                              /\ pc' = "done"
    /\ h_sentIds' = {}
    /\ h_passReturned' = {}
    /\ h_owed' = {}
    /\ h_placed' = NoPlaced
    /\ h_got401' = FALSE
    /\ h_failed' = FALSE
    /\ h_dirty' = FALSE
    /\ h_unchanged' = (passes >= 1 /\ ~h_dirty)
    /\ h_prev' = [status |-> result.status,
                  covered |-> \A k \in DOMAIN blobs :
                                 BlobName(blobs[k]) \in SeqToSet(indexFile.data),
                  sent |-> h_sentIds # {}]
    /\ UNCHANGED <<tree, faults, edits, limits, h_returned, h_confirmed>>

\* indexProject called on its own.
StartPass ==
    /\ tool.at = "idle"
    /\ indexProjectStart
    /\ UNCHANGED <<toolVars, sideVars>>

\* The head of the round loop when it goes on: the pending blobs are cut
\* into the batches of the round.
BeginRound ==
    /\ pc = "loop"
    /\ Len(pendingBlobs) > 0 /\ retryRound < maxRetryRounds /\ fatalError = Null
    /\ currentBatchSize' = RoundBatchSize(currentBatchSize, retryRound)
    /\ batches' = MakeBatches(pendingBlobs, currentBatchSize')
    /\ failedBlobsInThisRound' = << >>
    /\ groupStart' = 0
    /\ h_placed' = [h_placed EXCEPT !.round = << >>]
    /\ pc' = "group"
    /\ UNCHANGED <<tree, indexFile, passes, result, faults, edits, limits, blobs,
                   existingBlobNames, existingHashes, blobsToUpload,
                   uploadedBlobNames, fatalError, strategy, pendingBlobs,
                   retryRound, inflight, h_returned, h_confirmed,
                   h_passReturned, h_sentIds, h_got401, h_failed, h_dirty,
                   h_unchanged, h_prev, h_owed>>
    /\ UNCHANGED <<diskVars, toolVars, sideVars>>

\* uploadPromises: one request per batch of the group, none answered yet.
\* While retryRequest sleeps, retrying holds the failure it sleeps after;
\* outcome holds what the last POST of the request did.
Requests(group) ==
    Map([k \in 1..Len(group) |->
            [batchBlobs |-> group[k], attempt |-> 0, retrying |-> Null,
             outcome |-> Null, done |-> FALSE, result |-> NoBatchResult]])

\* The dispatch loop starts the requests of the next group of batches.
DispatchGroup ==
    /\ pc = "group"
    /\ groupStart < Len(batches) /\ fatalError = Null
    /\ LET group == ConcurrentBatches(batches, groupStart, strategy.concurrency)
       IN /\ inflight' = Requests(group)
          /\ h_sentIds' = h_sentIds \cup
                 UNION {BatchIds(group[k]) : k \in 1..Len(group)}
          /\ h_owed' = h_owed \
                 UNION {BatchIds(group[k]) : k \in 1..Len(group)}
          /\ h_placed' = [pass |-> Placed(h_placed.pass, group),
                          round |-> Placed(h_placed.round, group)]
    /\ pc' = "await"
    /\ UNCHANGED <<tree, indexFile, passes, result, faults, edits, limits, blobs,
                   existingBlobNames, existingHashes, blobsToUpload,
                   uploadedBlobNames, fatalError, strategy, pendingBlobs,
                   currentBatchSize, retryRound, batches, groupStart,
                   failedBlobsInThisRound, h_returned, h_confirmed,
                   h_passReturned, h_got401, h_failed, h_dirty, h_unchanged,
                   h_prev>>
    /\ UNCHANGED <<diskVars, toolVars, sideVars>>

\* One attempt of the POST of request k of the group ends with outcome o:
\* retryRequest returns, throws or sleeps and tries again, and uploadBatch
\* turns a return or a throw into the batch's result.
Attempt(k, o) ==
    /\ pc = "await"
    /\ k \in DOMAIN inflight
    /\ ~inflight[k].done
    /\ o \in limits.free \/ faults < limits.faults
    /\ o = "short" => Len(inflight[k].batchBlobs) >= 2
    /\ LET q == inflight[k]
           names == BlobNamesOf(o, q.batchBlobs)
           thrown == retryRequestCatch(o, q.attempt)
       IN /\ inflight' =
                [inflight EXCEPT ![k] =
                    IF o \notin Failures
                    THEN [q EXCEPT !.done = TRUE, !.retrying = Null,
                                   !.outcome = o,
                                   !.result = uploadBatchReturned(names)]
                    ELSE IF thrown # Null
                    THEN [q EXCEPT !.done = TRUE, !.retrying = Null,
                                   !.outcome = o,
                                   !.result = uploadBatchCaught(thrown)]
                    ELSE [q EXCEPT !.attempt = q.attempt + 1, !.retrying = o,
                                   !.outcome = o]]
          /\ h_returned' = h_returned \cup SeqToSet(names)
          /\ h_confirmed' = h_confirmed \cup SeqToSet(names)
          /\ h_passReturned' = h_passReturned \cup SeqToSet(names)
          /\ h_owed' =
                IF isRetryable(o) /\ thrown # Null /\ ~isFatalError(thrown)
                THEN h_owed \cup BatchIds(q.batchBlobs)
                ELSE h_owed
    /\ faults' = IF o \in limits.free THEN faults ELSE faults + 1
    /\ h_got401' = (h_got401 \/ o = "http401")
    /\ h_failed' = (h_failed \/ o \in Failures)
    /\ UNCHANGED <<tree, indexFile, pc, passes, result, edits, limits, blobs,
                   existingBlobNames, existingHashes, blobsToUpload,
                   uploadedBlobNames, fatalError, strategy, pendingBlobs,
                   currentBatchSize, retryRound, batches, groupStart,
                   failedBlobsInThisRound, h_sentIds, h_dirty, h_unchanged,
                   h_prev, h_placed>>
    /\ UNCHANGED <<diskVars, toolVars, sideVars>>

\* Promise.all of the group resolves: the result loop, then saveProgress
\* when anything was uploaded so far.
AwaitGroup ==
    /\ pc = "await"
    /\ AllSettled(inflight)
    /\ LET acc == HandleResults([uploaded |-> uploadedBlobNames,
                                 fatal |-> fatalError,
                                 failed |-> failedBlobsInThisRound], inflight)
       IN /\ uploadedBlobNames' = acc.uploaded
          /\ fatalError' = acc.fatal
          /\ failedBlobsInThisRound' = acc.failed
          /\ \E w \in WriteOutcomes(writeFaults, limits.writes) :
                /\ w = "ok" \/ Len(acc.uploaded) > 0
                /\ indexFile' =
                      IF w = "ok"
                      THEN SaveAfterGroup(indexFile, existingHashes, acc.uploaded)
                      ELSE FailedWrite(indexFile, w)
                /\ writeFaults' = IF w = "ok" THEN writeFaults ELSE writeFaults + 1
                /\ h_writeFailed' = (h_writeFailed \/ w # "ok")
                /\ IF saveIndexThrows(w)
                   THEN /\ result' = CaughtResult(MsgWrite)
                        /\ pc' = "done"
                   ELSE /\ pc' = "group"
                        /\ UNCHANGED result
    /\ groupStart' = groupStart + strategy.concurrency
    /\ UNCHANGED <<tree, passes, faults, edits, limits, blobs,
                   existingBlobNames, existingHashes, blobsToUpload, strategy,
                   pendingBlobs, currentBatchSize, retryRound, batches,
                   inflight, histVars>>
    /\ UNCHANGED <<toolVars, sideVars>>

\* The dispatch loop ends (no batch left, or a fatal error): the blobs that
\* failed in this round become the pending blobs of the next.
EndRound ==
    /\ pc = "group"
    /\ ~(groupStart < Len(batches) /\ fatalError = Null)
    /\ pendingBlobs' = failedBlobsInThisRound
    /\ retryRound' = retryRound + 1
    /\ inflight' = << >>
    /\ pc' = "loop"
    /\ UNCHANGED <<tree, indexFile, passes, result, faults, edits, limits, blobs,
                   existingBlobNames, existingHashes, blobsToUpload,
                   uploadedBlobNames, fatalError, strategy, currentBatchSize,
                   batches, groupStart, failedBlobsInThisRound, histVars>>
    /\ UNCHANGED <<diskVars, toolVars, sideVars>>

\* The round loop ends: the final save and the result of the pass.
FinishUpload ==
    /\ pc = "loop"
    /\ ~(Len(pendingBlobs) > 0 /\ retryRound < maxRetryRounds /\ fatalError = Null)
    /\ \E w \in WriteOutcomes(writeFaults, limits.writes) :
          /\ indexFile' =
                IF w = "ok"
                THEN saveIndex(AllBlobNames(existingHashes, uploadedBlobNames))
                ELSE FailedWrite(indexFile, w)
          /\ writeFaults' = IF w = "ok" THEN writeFaults ELSE writeFaults + 1
          /\ h_writeFailed' = (h_writeFailed \/ w # "ok")
          /\ result' =
                IF saveIndexThrows(w)
                THEN CaughtResult(MsgWrite)
                ELSE UploadResult(fatalError, existingHashes, uploadedBlobNames,
                                  Len(pendingBlobs))
    /\ pc' = "done"
    /\ UNCHANGED <<tree, passes, faults, edits, limits, passVars, histVars>>
    /\ UNCHANGED <<toolVars, sideVars>>

\* ----------------------------------------------------------- search_context
\* The arguments a call can carry: a missing or empty query or path, a path
\* that does not exist, a path of a plain file, a path of the project.
Queries == {Null, "", "q"}
Paths == {Null, "", "/missing", "/file", "/project"}
existsSync(projectRoot) == projectRoot \in {"/file", "/project"}

\* Variant of isDirectory that takes every path for a directory.
isDirectory_any(projectRoot) == TRUE

\* fs.statSync(projectRoot).isDirectory()
isDirectory(projectRoot) == projectRoot = "/project"

ErrQuery == <<"Error: query is required">>
ErrPath == <<"Error: project_root_path is required">>
ErrNoPath(projectRoot) == <<"Error: Project path does not exist: ", projectRoot>>
ErrNotDir(projectRoot) == <<"Error: Project path is not a directory: ", projectRoot>>
ErrIndex(message) == <<"Error: Failed to index project. ", message>>
ErrNoBlobs == <<"Error: No blobs found after indexing.">>
NoContext == <<"No relevant code context found for your query.">>
MsgNullLength == "Cannot read properties of null (reading 'length')"
MsgNoData == "Cannot read properties of undefined (reading 'formatted_retrieval')"

\* The checks of searchContextTool before it creates an IndexManager: the
\* text it returns, or no text when the arguments pass.
validate(query, projectRootPath) ==
    IF query \in {Null, ""} THEN ErrQuery
    ELSE IF projectRootPath \in {Null, ""} THEN ErrPath
    ELSE IF ~existsSync(projectRootPath) THEN ErrNoPath(projectRootPath)
    ELSE IF ~isDirectory(projectRootPath) THEN ErrNotDir(projectRootPath)
    ELSE << >>


\* Variant of indexFailed that takes no result for an error.
indexFailed_never(indexResult) == FALSE

\* indexResult.status === 'error'
indexFailed(indexResult) == indexResult.status = "error"


\* Variant of searchCaught that returns no text.
searchCaught_rethrow(errorMessage) == << >>

\* The catch block of searchContext: the text for a thrown error.
searchCaught(errorMessage) == <<"Error: ", errorMessage>>

\* The outcomes of one attempt of the retrieval POST: a response with a
\* formatted_retrieval, one with an empty or missing formatted_retrieval,
\* one without a body, or a failure.
RetrievalOutcomes == {"text", "blank", "nodata"} \cup Failures

\* What searchContext returns for a response.
retrievalText(o) ==
    CASE o = "text" -> <<"formatted retrieval">>
      [] o = "blank" -> NoContext
      [] OTHER -> searchCaught(MsgNoData)

Returned(text) == [at |-> "returned", text |-> text, attempt |-> 0]


\* Variant of AddedBlobs that sends no id.
AddedBlobs_none(blobNames) == << >>

\* added_blobs: blobNames, the list loadIndex() returned.
AddedBlobs(blobNames) == blobNames.data

\* The payload of the retrieval request.
Payload(query, blobNames) ==
    [information_request |-> query, added_blobs |-> AddedBlobs(blobNames),
     deleted_blobs |-> << >>]

\* A search_context call: the checks of searchContextTool and, when they
\* pass, a new IndexManager whose searchContext starts indexProject.
searchContextTool(query, projectRootPath) ==
    /\ tool.at \in {"idle", "returned"}
    /\ pc \in {"idle", "done"}
    /\ h_tool.calls < limits.calls
    /\ IF validate(query, projectRootPath) # << >>
       THEN /\ tool' = Returned(validate(query, projectRootPath))
            /\ h_tool' = [h_tool EXCEPT !.calls = @ + 1, !.query = query,
                                        !.projectRootPath = projectRootPath]
            /\ UNCHANGED <<tree, indexFile, pc, passes, result, faults, edits,
                           limits, passVars, histVars, diskVars>>
       ELSE /\ indexProjectStart
            /\ tool' = [at |-> "indexing", text |-> << >>, attempt |-> 0]
            /\ h_tool' = [h_tool EXCEPT !.calls = @ + 1, !.managers = @ + 1,
                                        !.query = query,
                                        !.projectRootPath = projectRootPath]
    /\ UNCHANGED sideVars

\* searchContext after indexProject returned: it gives up on an error
\* result or an empty manifest, else it sends the retrieval request.
searchAfterIndex ==
    /\ tool.at = "indexing"
    /\ pc = "done"
    /\ \E blobNames \in {loadIndex(indexFile)} :
          IF indexFailed(result)
          THEN /\ tool' = Returned(ErrIndex(result.message))
               /\ UNCHANGED h_tool
          ELSE IF blobNames.json = "null"
          THEN /\ tool' = Returned(searchCaught(MsgNullLength))
               /\ UNCHANGED h_tool
          ELSE IF blobNames.json \in {"array", "string"} /\ Len(blobNames.data) = 0
          THEN /\ tool' = Returned(ErrNoBlobs)
               /\ UNCHANGED h_tool
          ELSE /\ tool' = [at |-> "retrieving", text |-> << >>, attempt |-> 0]
               /\ h_tool' = [h_tool EXCEPT
                                !.retrievals = @ + 1,
                                !.payload = Payload(h_tool.query, blobNames)]
    /\ UNCHANGED <<tree, indexFile, pc, passes, result, faults, edits, limits,
                   passVars, histVars, diskVars, sideVars>>

\* One attempt of the retrieval POST ends with outcome o: retryRequest
\* returns, throws or sleeps and posts again.
retrieveAttempt(o) ==
    /\ tool.at = "retrieving"
    /\ o = "text" \/ faults < limits.faults
    /\ \E thrown \in {retryRequestCatch(o, tool.attempt)} :
          IF o \notin Failures
          THEN /\ tool' = Returned(retrievalText(o))
               /\ UNCHANGED h_tool
          ELSE IF thrown # Null
          THEN /\ tool' = Returned(searchCaught(thrown))
               /\ UNCHANGED h_tool
          ELSE /\ tool' = [tool EXCEPT !.attempt = @ + 1]
               /\ h_tool' = [h_tool EXCEPT !.retrievals = @ + 1]
    /\ faults' = IF o = "text" THEN faults ELSE faults + 1
    /\ UNCHANGED <<tree, indexFile, pc, passes, result, edits, limits,
                   passVars, histVars, diskVars, sideVars>>

\* The steps of a pass.
NextPass ==
    \/ StartPass
    \/ BeginRound
    \/ DispatchGroup
    \/ \E k \in 1..4, o \in UploadOutcomes : Attempt(k, o)
    \/ AwaitGroup
    \/ EndRound
    \/ FinishUpload

Next ==
    \/ \E f \in 1..NSmall, v \in Versions : EditFile(f, v)
    \/ \E f \in 1..NSmall : DeleteFile(f)
    \/ NextPass

\* Passes over small projects, with edits and deletions between them.
Spec == Init /\ [][Next]_vars

\* One pass over the medium project.
SpecMedium == InitMedium /\ [][NextPass]_vars

\* One pass over a small project, with every class of failure.
InitFaults ==
    /\ tree \in {[f \in 1..n |-> 0] : n \in ProjectSizes}
    /\ limits = [passes |-> 1, faults |-> FaultBudget, edits |-> 0, writes |-> 0,
                 calls |-> 0, free |-> {"ok"}]
    /\ indexFile = NoFile
    /\ InitPass
    /\ InitTool
    /\ InitSide

NextFaults ==
    \/ StartPass
    \/ BeginRound
    \/ DispatchGroup
    \/ \E k \in 1..4, o \in Outcomes : Attempt(k, o)
    \/ AwaitGroup
    \/ EndRound
    \/ FinishUpload

SpecFaults == InitFaults /\ [][NextFaults]_vars

\* The manifest files a first call can find: none, one that cannot be read,
\* one that is not JSON, the JSON values null, {} and 5, a JSON string, an
\* array of numbers, and an array holding the id of an older version.
ManifestFiles ==
    {NoFile} \cup
    {[exists |-> TRUE, json |-> j, data |-> << >>] :
        j \in {"unreadable", "invalid", "null", "object", "number"}} \cup
    {[exists |-> TRUE, json |-> "string", data |-> <<<<"a">>>>],
     [exists |-> TRUE, json |-> "array", data |-> <<<<5>>>>],
     [exists |-> TRUE, json |-> "array", data |-> <<<<1, 1>>>>]}

InitSearch ==
    /\ tree \in {[f \in 1..n |-> 0] : n \in ProjectSizes}
    /\ limits = [passes |-> SearchCalls, faults |-> SearchFaults, edits |-> 0,
                 writes |-> SearchWrites, calls |-> SearchCalls,
                 free |-> {"ok"}]
    /\ indexFile \in ManifestFiles
    /\ InitPass
    /\ InitTool
    /\ InitSide

NextSearch ==
    \/ \E query \in Queries, projectRootPath \in Paths :
           searchContextTool(query, projectRootPath)
    \/ BeginRound
    \/ DispatchGroup
    \/ \E k \in 1..4, o \in Outcomes : Attempt(k, o)
    \/ AwaitGroup
    \/ EndRound
    \/ FinishUpload
    \/ searchAfterIndex
    \/ \E o \in RetrievalOutcomes : retrieveAttempt(o)

\* search_context calls on small projects, with failing requests, failing
\* writes of the manifest and any manifest file to begin with.
SpecSearch == InitSearch /\ [][NextSearch]_vars

\* ------------------------------------------------------ functions on their own
\* The sequences over a set of length at most n.
SeqsUpTo(S, n) == UNION {[1..m -> S] : m \in 0..n}

NoLimits == [passes |-> 0, faults |-> 0, edits |-> 0, writes |-> 0, calls |-> 0,
             free |-> {"ok"}]

\* No project, no manifest file and no call: the rest of the program while
\* one function is taken on its own.
InitQuiet ==
    /\ tree = << >>
    /\ limits = NoLimits
    /\ indexFile = NoFile
    /\ InitPass
    /\ InitTool

\* ---- calculateBlobName
\* Paths and contents are strings over two characters.
HashChars == {"a", "b"}
HashPaths == SeqsUpTo(HashChars, MaxPathLen) \ {<< >>}
HashContents == SeqsUpTo(HashChars, MaxContentLen)

InitHash ==
    /\ hashed \in [done : {FALSE}, b1 : [path : HashPaths, content : HashContents],
                   b2 : [path : HashPaths, content : HashContents]]
    /\ split = NoSplit
    /\ store = NoStore
    /\ InitMore
    /\ InitQuiet

\* blobHashMap is filled: the name of each of the two blobs is computed.
hashBlobs ==
    /\ ~hashed.done
    /\ hashed' = [done |-> TRUE, b1 |-> hashed.b1, b2 |-> hashed.b2,
                  id1 |-> calculateBlobName(hashed.b1.path, hashed.b1.content),
                  id2 |-> calculateBlobName(hashed.b2.path, hashed.b2.content)]
    /\ UNCHANGED <<tree, indexFile, pc, passes, result, faults, edits, limits,
                   passVars, histVars, diskVars, toolVars, split, store, moreVars>>

\* The names of two blobs.
SpecHash == InitHash /\ [][hashBlobs]_vars

\* ---- splitFileContent
LF == "LF"
CR == "CR"
TextChars == {"x", LF, CR}

\* The loop over content of splitFileContent, from index i (1-based) with
\* the current line starting at start: a line ends after \n, after \r\n or
\* after a lone \r, and what follows the last terminator is a line too.
RECURSIVE ScanLines(_, _, _, _)
ScanLines(content, i, start, lines) ==
    IF i > Len(content)
    THEN IF start <= Len(content)
         THEN Append(lines, SubSeq(content, start, Len(content)))
         ELSE lines
    ELSE IF content[i] = LF
    THEN ScanLines(content, i + 1, i + 1, Append(lines, SubSeq(content, start, i)))
    ELSE IF content[i] = CR
    THEN IF i + 1 <= Len(content) /\ content[i + 1] = LF
         THEN ScanLines(content, i + 2, i + 2,
                        Append(lines, SubSeq(content, start, i + 1)))
         ELSE ScanLines(content, i + 1, i + 1,
                        Append(lines, SubSeq(content, start, i)))
    ELSE ScanLines(content, i + 1, start, lines)

\* chunkLines.join('')
RECURSIVE Join(_)
Join(chunkLines) ==
    IF chunkLines = << >> THEN << >>
    ELSE Head(chunkLines) \o Join(Tail(chunkLines))

\* Variant of NumChunks that rounds down.
NumChunks_floor(totalLines, maxLinesPerBlob) == totalLines \div maxLinesPerBlob

\* Math.ceil(totalLines / this.maxLinesPerBlob)
NumChunks(totalLines, maxLinesPerBlob) ==
    (totalLines + maxLinesPerBlob - 1) \div maxLinesPerBlob

\* Variant of ChunkPath that numbers the chunks from 0.
ChunkPath_zero(filePath, chunkIdx, numChunks) ==
    filePath \o <<"#chunk", ToString(chunkIdx), "of", ToString(numChunks)>>

\* `${filePath}#chunk${chunkIdx + 1}of${numChunks}` for chunkIdx from 0.
ChunkPath(filePath, chunkIdx, numChunks) ==
    filePath \o <<"#chunk", ToString(chunkIdx + 1), "of", ToString(numChunks)>>

\* The chunk blobs of a file of more than maxLinesPerBlob lines.
Chunks(filePath, lines, maxLinesPerBlob, numChunks) ==
    Map([c \in 1..numChunks |->
            [path |-> ChunkPath(filePath, c - 1, numChunks),
             content |-> Join(Slice(lines, (c - 1) * maxLinesPerBlob,
                                    Min((c - 1) * maxLinesPerBlob + maxLinesPerBlob,
                                        Len(lines))))]])

splitFileContent(filePath, content, maxLinesPerBlob) ==
    IF Len(ScanLines(content, 1, 1, << >>)) <= maxLinesPerBlob
    THEN <<[path |-> filePath, content |-> content]>>
    ELSE Chunks(filePath, ScanLines(content, 1, 1, << >>), maxLinesPerBlob,
                NumChunks(Len(ScanLines(content, 1, 1, << >>)), maxLinesPerBlob))

FilePath == <<"f">>

InitSplit ==
    /\ split \in [done : {FALSE}, content : SeqsUpTo(TextChars, MaxTextLen),
                  maxLinesPerBlob : 1..MaxLines]
    /\ hashed = NoHash
    /\ store = NoStore
    /\ InitMore
    /\ InitQuiet

\* collectFiles splits the content of a file it read.
splitFile ==
    /\ ~split.done
    /\ split' = [done |-> TRUE, content |-> split.content,
                 maxLinesPerBlob |-> split.maxLinesPerBlob,
                 blobs |-> splitFileContent(FilePath, split.content,
                                            split.maxLinesPerBlob)]
    /\ UNCHANGED <<tree, indexFile, pc, passes, result, faults, edits, limits,
                   passVars, histVars, diskVars, toolVars, hashed, store, moreVars>>

\* The blobs of one text.
SpecSplit == InitSplit /\ [][splitFile]_vars

\* ---- saveIndex
\* JSON.stringify(blobNames, null, 2) as tokens: the brackets, the ids and
\* the commas between them.
stringify(blobNames) ==
    IF blobNames = << >> THEN <<"[", "]">>
    ELSE [i \in 1..(2 * Len(blobNames) + 1) |->
             IF i = 1 THEN "["
             ELSE IF i = 2 * Len(blobNames) + 1 THEN "]"
             ELSE IF i % 2 = 0 THEN blobNames[i \div 2]
             ELSE ","]

\* JSON.parse throws on a text that is not a complete array.
parseThrows(text) ==
    ~ \/ text = <<"[", "]">>
      \/ /\ Len(text) >= 3 /\ Len(text) % 2 = 1
         /\ text[1] = "[" /\ text[Len(text)] = "]"
         /\ \A i \in 2..(Len(text) - 1) :
               IF i % 2 = 0 THEN text[i] \notin {"[", "]", ","} ELSE text[i] = ","

\* JSON.parse of a complete array: its elements.
parse(text) == [k \in 1..((Len(text) - 1) \div 2) |-> text[2 * k]]

\* loadIndex() of another process on the bytes the file holds now.
readIndex(text) == IF parseThrows(text) THEN << >> ELSE parse(text)

SaveIds == {"id1", "id2"}
SaveManifests == SeqsUpTo(SaveIds, MaxManifest)

InitSave ==
    /\ store \in {[at |-> "closed", previous |-> p, content |-> c,
                   text |-> stringify(p)] : p \in SaveManifests, c \in SaveManifests}
    /\ hashed = NoHash
    /\ split = NoSplit
    /\ InitMore
    /\ InitQuiet

\* fs.writeFileSync opens the file for writing, which truncates it.
saveOpen ==
    /\ store.at = "closed"
    /\ store' = [store EXCEPT !.at = "open", !.text = << >>]
    /\ UNCHANGED <<tree, indexFile, pc, passes, result, faults, edits, limits,
                   passVars, histVars, diskVars, toolVars, hashed, split, moreVars>>

\* fs.writeFileSync writes some more of the text.
saveWrite ==
    /\ store.at = "open"
    /\ Len(store.text) < Len(stringify(store.content))
    /\ \E n \in (Len(store.text) + 1)..Len(stringify(store.content)) :
          store' = [store EXCEPT !.text = SubSeq(stringify(store.content), 1, n)]
    /\ UNCHANGED <<tree, indexFile, pc, passes, result, faults, edits, limits,
                   passVars, histVars, diskVars, toolVars, hashed, split, moreVars>>

\* fs.writeFileSync closes the file and returns.
saveClose ==
    /\ store.at = "open"
    /\ store.text = stringify(store.content)
    /\ store' = [store EXCEPT !.at = "saved"]
    /\ UNCHANGED <<tree, indexFile, pc, passes, result, faults, edits, limits,
                   passVars, histVars, diskVars, toolVars, hashed, split, moreVars>>

\* The process dies, or the write fails, while the file is open.
saveCrash ==
    /\ store.at = "open"
    /\ store' = [store EXCEPT !.at = "crashed"]
    /\ UNCHANGED <<tree, indexFile, pc, passes, result, faults, edits, limits,
                   passVars, histVars, diskVars, toolVars, hashed, split, moreVars>>

NextSave == saveOpen \/ saveWrite \/ saveClose \/ saveCrash

\* One saveIndex over a file that holds a manifest, step by step.
SpecSave == InitSave /\ [][NextSave]_vars


\* ---- retryRequest
\* Math.pow(2, attempt)
RECURSIVE Pow2(_)
Pow2(n) == IF n = 0 THEN 1 ELSE 2 * Pow2(n - 1)

\* Variant of WaitTime that waits retryDelay before every attempt.
WaitTime_flat(retryDelay, attempt) == retryDelay

\* waitTime = retryDelay * Math.pow(2, attempt)
WaitTime(retryDelay, attempt) == retryDelay * Pow2(attempt)

\* Variant of StopsRetrying that goes on after any failure.
StopsRetrying_never(o, attempt, maxAttempts) == attempt = maxAttempts - 1

\* !isRetryable || attempt === maxRetries - 1
StopsRetrying(o, attempt, maxAttempts) ==
    ~isRetryable(o) \/ attempt = maxAttempts - 1

\* The catch block of retryRequest for any maxRetries: the message of the
\* error it throws on a failed attempt, or Null when it sleeps.
retryCatch(o, attempt, maxAttempts) ==
    IF o = "http401" THEN MsgToken
    ELSE IF o = "http403" THEN MsgForbidden
    ELSE IF o = "cert" THEN MsgCert
    ELSE IF StopsRetrying(o, attempt, maxAttempts)
    THEN (CASE o = "ECONNREFUSED" -> MsgRefused
            [] o = "ETIMEDOUT" -> MsgTimeout
            [] o = "ENOTFOUND" -> MsgDns
            [] OTHER -> OriginalMessage(o))
    ELSE Null

\* The retryDelay of the two callers: the default and that of searchContext.
RetryDelays == {1000, 2000}

\* What one call of fn can do.
CallOutcomes == {"ok"} \cup Failures

InitRetry ==
    /\ retry \in [at : {"loop"}, maxRetries : 1..MaxAttempts,
                  retryDelay : RetryDelays, attempt : {0}, calls : {0},
                  waits : {<< >>}, outcomes : {<< >>}, error : {Null}]
    /\ strat = NoStrategy
    /\ overlap = NoOverlap
    /\ walk = NoWalk
    /\ hashed = NoHash
    /\ split = NoSplit
    /\ store = NoStore
    /\ InitQuiet

\* The body of the for loop: fn is called and returns, or throws o and the
\* catch block throws in its turn or starts to sleep.
retryInvoke(o) ==
    /\ retry.at = "loop"
    /\ retry.attempt < retry.maxRetries
    /\ \E thrown \in {retryCatch(o, retry.attempt, retry.maxRetries)} :
          retry' =
            [retry EXCEPT
               !.calls = @ + 1,
               !.outcomes = Append(@, o),
               !.at = IF o = "ok" THEN "returned"
                      ELSE IF thrown # Null THEN "thrown" ELSE "sleeping",
               !.error = IF o = "ok" THEN Null ELSE thrown,
               !.waits = IF o # "ok" /\ thrown = Null
                         THEN Append(@, WaitTime(retry.retryDelay, retry.attempt))
                         ELSE @]
    /\ UNCHANGED <<tree, indexFile, pc, passes, result, faults, edits, limits,
                   passVars, histVars, diskVars, toolVars, hashed, split, store, walk,
                   strat, overlap>>

\* sleep(waitTime) is over: attempt++ and the test of the for loop, after
\* which the loop goes on or the function throws lastError.
retryWake ==
    /\ retry.at = "sleeping"
    /\ retry' =
         [retry EXCEPT
            !.attempt = @ + 1,
            !.at = IF retry.attempt + 1 < retry.maxRetries THEN "loop" ELSE "thrown",
            !.error = IF retry.attempt + 1 < retry.maxRetries THEN Null
                      ELSE OriginalMessage(retry.outcomes[Len(retry.outcomes)])]
    /\ UNCHANGED <<tree, indexFile, pc, passes, result, faults, edits, limits,
                   passVars, histVars, diskVars, toolVars, hashed, split, store, walk,
                   strat, overlap>>

NextRetry ==
    \/ \E o \in CallOutcomes : retryInvoke(o)
    \/ retryWake

\* One call of retryRequest.
SpecRetry == InitRetry /\ [][NextRetry]_vars

\* ---- getUploadStrategy
\* The blob counts at which getUploadStrategy changes scale.
Thresholds == {100, 500, 2000}

\* Blob counts next to 0 and on both sides of every threshold.
StrategyCounts ==
    (0..Spread) \cup UNION {(t - Spread)..(t + Spread) : t \in Thresholds}

InitStrategy ==
    /\ strat \in [done : {FALSE}, m : StrategyCounts, n : StrategyCounts]
    /\ retry = NoRetry
    /\ overlap = NoOverlap
    /\ walk = NoWalk
    /\ hashed = NoHash
    /\ split = NoSplit
    /\ store = NoStore
    /\ InitQuiet

\* indexProject asks for the strategy of a number of blobs to upload.
selectStrategy ==
    /\ ~strat.done
    /\ strat' = [done |-> TRUE, m |-> strat.m, n |-> strat.n,
                 sm |-> getUploadStrategy(strat.m),
                 sn |-> getUploadStrategy(strat.n)]
    /\ UNCHANGED <<tree, indexFile, pc, passes, result, faults, edits, limits,
                   passVars, histVars, diskVars, toolVars, hashed, split, store, walk,
                   retry, overlap>>

\* The strategies of two blob counts.
SpecStrategy == InitStrategy /\ [][selectStrategy]_vars

\* ---- two search_context calls for one project
\* The handler of CallToolRequestSchema is an async function: a second call
\* is taken up while the first one waits for its files or its requests.  Each
\* call creates its own IndexManager, and both have the same indexFilePath.
\* A blob is its id here, and every group of a pass holds one batch of one
\* blob.
Managers == {1, 2}
OverlapIds == [k \in 1..OverlapBlobs |-> k]

NoManager == [at |-> "idle", existingHashes |-> << >>, uploadedBlobNames |-> << >>,
              pendingBlobs |-> << >>]

InitOverlap ==
    /\ overlap \in [at : {"serving"},
                    file : {SubSeq(OverlapIds, 1, n) : n \in 0..(OverlapBlobs - 1)},
                    writes : {0}, writer : {0},
                    manager : {[i \in Managers |-> NoManager]}]
    /\ retry = NoRetry
    /\ strat = NoStrategy
    /\ walk = NoWalk
    /\ hashed = NoHash
    /\ split = NoSplit
    /\ store = NoStore
    /\ InitQuiet

\* saveIndex by manager i: the file holds its list.
overlapSave(o, i, blobNames) ==
    [o EXCEPT !.file = blobNames, !.writes = @ + 1, !.writer = i]

\* A search_context call arrives: searchContextTool creates IndexManager i,
\* whose indexProject starts to collect the files.
overlapCall(i) ==
    /\ overlap.at = "serving"
    /\ overlap.manager[i].at = "idle"
    /\ overlap' = [overlap EXCEPT !.manager[i].at = "scanning"]
    /\ UNCHANGED <<tree, indexFile, pc, passes, result, faults, edits, limits,
                   passVars, histVars, diskVars, toolVars, hashed, split, store, walk,
                   retry, strat>>

\* collectFiles of manager i is done: it loads the manifest, splits the
\* hashes into existing and new, and starts the first upload, or saves and
\* returns when nothing is new.
overlapLoad(i) ==
    /\ overlap.at = "serving"
    /\ overlap.manager[i].at = "scanning"
    /\ \E existing \in {ExistingHashes(OverlapIds, SeqToSet(overlap.file))},
          new \in {NewHashes(OverlapIds, SeqToSet(overlap.file))} :
          IF Len(new) > 0
          THEN overlap' =
                 [overlap EXCEPT
                    !.manager[i] = [at |-> "uploading", existingHashes |-> existing,
                                    uploadedBlobNames |-> << >>,
                                    pendingBlobs |-> new]]
          ELSE overlap' =
                 [overlapSave(overlap, i, AllBlobNames(existing, << >>)) EXCEPT
                    !.manager[i] = [at |-> "done", existingHashes |-> existing,
                                    uploadedBlobNames |-> << >>,
                                    pendingBlobs |-> << >>]]
    /\ UNCHANGED <<tree, indexFile, pc, passes, result, faults, edits, limits,
                   passVars, histVars, diskVars, toolVars, hashed, split, store, walk,
                   retry, strat>>

\* The request of the current group of manager i is answered: with the id
\* of its blob, after which saveProgress writes the manifest, or with a fatal
\* error.  After the last group, or after the fatal error, the final save
\* writes the manifest and the pass returns.
overlapGroup(i, ok) ==
    /\ overlap.at = "serving"
    /\ overlap.manager[i].at = "uploading"
    /\ LET mgr == overlap.manager[i]
           uploaded == IF ok THEN Append(mgr.uploadedBlobNames, Head(mgr.pendingBlobs))
                       ELSE mgr.uploadedBlobNames
           pending == Tail(mgr.pendingBlobs)
           last == ~ok \/ pending = << >>
       IN overlap' =
            [(IF Len(uploaded) > 0 \/ last
              THEN overlapSave(overlap, i, AllBlobNames(mgr.existingHashes, uploaded))
              ELSE overlap) EXCEPT
               !.manager[i] = [at |-> IF last THEN "done" ELSE "uploading",
                               existingHashes |-> mgr.existingHashes,
                               uploadedBlobNames |-> uploaded,
                               pendingBlobs |-> pending]]
    /\ UNCHANGED <<tree, indexFile, pc, passes, result, faults, edits, limits,
                   passVars, histVars, diskVars, toolVars, hashed, split, store, walk,
                   retry, strat>>

NextOverlap ==
    \/ \E i \in Managers : overlapCall(i)
    \/ \E i \in Managers : overlapLoad(i)
    \/ \E i \in Managers, ok \in BOOLEAN : overlapGroup(i, ok)

\* Two calls for the same project, in any interleaving the server allows.
SpecOverlap == InitOverlap /\ [][NextOverlap]_vars

\* ---- a pass over a project that has a manifest
\* The ids a manifest of an earlier pass can hold: those of the files as they
\* are, those of an older content of the files, that of a file that is gone.
ResumeCandidates ==
    [k \in 1..(2 * NSmall + 1) |->
        IF k <= NSmall THEN <<k, 0>>
        ELSE IF k <= 2 * NSmall THEN <<k - NSmall, 1>>
        ELSE <<NSmall + 1, 0>>]

\* The manifests of at most ResumeIds ids.
ResumeManifests ==
    {SelectSeq(ResumeCandidates, LAMBDA id : id \in S) :
        S \in {T \in SUBSET SeqToSet(ResumeCandidates) : Cardinality(T) <= ResumeIds}}

InitResume ==
    /\ tree \in {[f \in 1..n |-> 0] : n \in 0..NSmall}
    /\ limits = [passes |-> 1, faults |-> ResumeFaults, edits |-> 0, writes |-> 0,
                 calls |-> 0, free |-> {"ok"}]
    /\ indexFile \in {saveIndex(m) : m \in ResumeManifests}
    /\ InitPass
    /\ InitTool
    /\ InitSide

\* One pass over a small project whose manifest was written by earlier passes.
SpecResume == InitResume /\ [][NextPass]_vars

\* ---- a pass whose requests may fail whenever the code sends one
\* A project of at most NSmall blobs has one batch in every round, so that a
\* pass posts at most maxRetries * maxRetryRounds times: with that many
\* failures to spend every attempt of the pass may fail.
LiveFaults == maxRetries * maxRetryRounds

InitLive ==
    /\ tree \in {[f \in 1..n |-> 0] : n \in 0..NSmall}
    /\ limits = [passes |-> 1, faults |-> LiveFaults, edits |-> 0, writes |-> 0,
                 calls |-> 0, free |-> {"ok"}]
    /\ indexFile = NoFile
    /\ InitPass
    /\ InitTool
    /\ InitSide

\* indexProject is one async function: once called it runs on whenever the
\* request it awaits has returned or failed.
SpecLive == InitLive /\ [][NextFaults]_vars /\ WF_vars(NextFaults)

\* ---- walkDir over one directory
\* An entry of the directory: a directory, a regular text file, or something
\* else (a symbolic link, a socket); what fs.statSync does on its path; what
\* the .gitignore rules and the exclude patterns say of its path; and what
\* reading it does (readdir of a directory, readFileWithEncoding of a file).
WalkEntries ==
    [kind : {"dir", "file", "link"}, stat : {"ok", "throws"},
     excluded : BOOLEAN, io : {"ok", "throws"}]

\* The try block of shouldExclude throws: statSync is called when there is a
\* .gitignore, and throws.
shouldExcludeRaises(entry, gitignoreSpec) ==
    gitignoreSpec /\ entry.stat = "throws"

\* shouldExclude(filePath, gitignoreSpec): the catch block returns false.
shouldExclude(entry, gitignoreSpec) ==
    IF shouldExcludeRaises(entry, gitignoreSpec) THEN FALSE ELSE entry.excluded

InitWalk ==
    /\ walk \in [at : {"walking"}, gitignoreSpec : BOOLEAN,
                 entries : SeqsUpTo(WalkEntries, MaxEntries) \ {<< >>},
                 i : {1}, blobs : {<< >>}, excludedCount : {0},
                 tested : {<< >>}]
    /\ retry = NoRetry
    /\ strat = NoStrategy
    /\ overlap = NoOverlap
    /\ hashed = NoHash
    /\ split = NoSplit
    /\ store = NoStore
    /\ InitQuiet

\* One turn of the for loop of walkDir, on entry i: a directory that is not
\* excluded is walked in its turn, and the readdir of that walk may throw; a
\* file that is not excluded is read, and a failure to read it is passed
\* over in silence.  tested keeps what shouldExclude did on each entry.
walkEntry ==
    /\ walk.at = "walking"
    /\ walk.i <= Len(walk.entries)
    /\ LET entry == walk.entries[walk.i]
           exclude == shouldExclude(entry, walk.gitignoreSpec)
           test == [entry |-> walk.i,
                    raised |-> shouldExcludeRaises(entry, walk.gitignoreSpec),
                    excluded |-> exclude]
       IN walk' =
            IF entry.kind = "link" THEN [walk EXCEPT !.i = @ + 1]
            ELSE IF exclude
            THEN [walk EXCEPT !.i = @ + 1, !.excludedCount = @ + 1,
                              !.tested = Append(@, test)]
            ELSE IF entry.kind = "dir" /\ entry.io = "throws"
            THEN [walk EXCEPT !.at = "thrown", !.tested = Append(@, test)]
            ELSE IF entry.kind = "file" /\ entry.io = "ok"
            THEN [walk EXCEPT !.i = @ + 1, !.blobs = Append(@, walk.i),
                              !.tested = Append(@, test)]
            ELSE [walk EXCEPT !.i = @ + 1, !.tested = Append(@, test)]
    /\ UNCHANGED <<tree, indexFile, pc, passes, result, faults, edits, limits,
                   passVars, histVars, diskVars, toolVars, hashed, split, store,
                   retry, strat, overlap>>

\* The for loop is over: walkDir returns.
walkReturn ==
    /\ walk.at = "walking"
    /\ walk.i > Len(walk.entries)
    /\ walk' = [walk EXCEPT !.at = "returned"]
    /\ UNCHANGED <<tree, indexFile, pc, passes, result, faults, edits, limits,
                   passVars, histVars, diskVars, toolVars, hashed, split, store,
                   retry, strat, overlap>>

NextWalk ==
    \/ walkEntry
    \/ walkReturn

\* The walk over the entries of one directory.
SpecWalk == InitWalk /\ [][NextWalk]_vars

\* ---- a pass whose server confirms what it was sent
\* What an attempt can do when the server never answers with a part of the
\* ids of a batch.
ExactOutcomes == Outcomes \ {"short"}

NextExact ==
    \/ StartPass
    \/ BeginRound
    \/ DispatchGroup
    \/ \E k \in 1..4, o \in ExactOutcomes : Attempt(k, o)
    \/ AwaitGroup
    \/ EndRound
    \/ FinishUpload

\* One pass over a small project, with every class of failure, in which a
\* response that confirms anything confirms the whole batch.
SpecExact == InitFaults /\ [][NextExact]_vars

\* ---- repeated passes
\* Passes over a small project, one after the other, with edits and
\* deletions between them.  A response that confirms a part of its batch is
\* a success of the request and may come at any attempt; the other outcomes
\* that are not a full confirmation are limited to ConvergeFaults.
InitConverge ==
    /\ tree \in {[f \in 1..n |-> 0] : n \in 0..NSmall}
    /\ limits = [passes |-> ConvergePasses, faults |-> ConvergeFaults,
                 edits |-> MaxEdits, writes |-> 0, calls |-> 0,
                 free |-> {"ok", "short"}]
    /\ indexFile = NoFile
    /\ InitPass
    /\ InitTool
    /\ InitSide

\* A pass that was started runs on to its return, and passes are started as
\* long as the behaviour has passes left.
SpecConverge == InitConverge /\ [][Next]_vars /\ WF_vars(Next)

\* ----------------------------------------------------------------- claims
HasStats(r) == "stats" \in DOMAIN r
ManifestIds == SeqToSet(indexFile.data)
DiscoveredIds == BatchIds(blobs)

\* C1 as stated: a pass that finds the tree as the previous pass left it
\* sends no blob and returns new_blobs = 0, whatever the previous pass did.
C1_Original ==
    (pc = "done" /\ h_unchanged /\ blobs # << >>)
        => (h_sentIds = {} /\ HasStats(result) /\ result.stats.new_blobs = 0)

\* C1 amended: a pass that finds the tree as the previous pass left it,
\* after a previous pass that returned success and left the id of every
\* discovered blob in the manifest, sends no blob and returns new_blobs = 0.
C1_Idempotent ==
    (pc = "done" /\ h_unchanged /\ h_prev.status = "success" /\ h_prev.covered)
        => (h_sentIds = {} /\ HasStats(result) /\ result.stats.new_blobs = 0)

C1_Witness ==
    /\ pc = "done" /\ h_unchanged
    /\ h_prev.status = "success" /\ h_prev.covered /\ h_prev.sent
    /\ h_sentIds = {}
    /\ result.status = "success"
    /\ result.stats.new_blobs = 0 /\ result.stats.existing_blobs > 0

\* C2: no request is started with a blob whose id a response confirmed
\* earlier, in this pass or in a pass before, while the blob's file was
\* neither edited nor deleted since.
C2_NeverResent ==
    [][(pc = "group" /\ pc' = "await")
          => \A k \in DOMAIN inflight' :
                 BatchIds(inflight'[k].batchBlobs) \cap h_confirmed = {}]_vars

C2_Witness ==
    /\ pc = "await" /\ h_confirmed # {}
    /\ retryRound > 0 \/ passes > 1
    /\ faults > 0
    /\ \A k \in DOMAIN inflight :
           BatchIds(inflight[k].batchBlobs) \cap h_confirmed = {}

\* C3: starting without a manifest file, every id of the persisted manifest
\* was returned in the blob_names of some upload response.
C3_ManifestConfirmed == ManifestIds \subseteq h_returned

C3_Witness ==
    /\ pc = "done" /\ passes > 1 /\ faults > 0
    /\ ManifestIds # {}
    /\ DiscoveredIds \ ManifestIds # {}

\* C4: every result that is not an error has total_blobs = existing_blobs +
\* new_blobs.
C4_TotalConsistent ==
    (pc = "done" /\ result.status # "error")
        => /\ HasStats(result)
           /\ result.stats.total_blobs =
                  result.stats.existing_blobs + result.stats.new_blobs

C4_Witness ==
    /\ pc = "done" /\ result.status = "partial_success"
    /\ fatalError # Null
    /\ result.stats.new_blobs > 0
    /\ result.stats.total_blobs =
           result.stats.existing_blobs + result.stats.new_blobs

\* C5: once an upload attempt of the pass received HTTP 401, no group of
\* batches is dispatched any more in that pass (no later group, no later
\* round), and the pass returns partial_success when existing + accepted > 0
\* and error otherwise, never success.
C5_FatalShortCircuit ==
    /\ [][h_got401 => ~(pc = "group" /\ pc' = "await")]_vars
    /\ [](h_got401 /\ pc = "done"
             => result.status =
                    IF Len(existingHashes) + Len(uploadedBlobNames) > 0
                    THEN "partial_success" ELSE "error")

C5_Witness ==
    /\ pc = "done" /\ h_got401
    /\ result.status = "partial_success"
    /\ groupStart < Len(batches)

\* C6 as stated: a pass without fatal error that ends with blobs still
\* pending returns partial_success with total_blobs = E + A, for all E and A.
C6_Original ==
    (pc = "done" /\ blobsToUpload # << >> /\ fatalError = Null
        /\ Len(pendingBlobs) > 0)
        => /\ result.status = "partial_success"
           /\ HasStats(result)
           /\ result.stats.total_blobs =
                  Len(existingHashes) + Len(uploadedBlobNames)

\* C6 amended: the same when E + A > 0; with E = A = 0 the pass is an error.
C6_PartialAccounting ==
    (pc = "done" /\ blobsToUpload # << >> /\ fatalError = Null
        /\ Len(pendingBlobs) > 0)
        => IF Len(existingHashes) + Len(uploadedBlobNames) > 0
           THEN /\ result.status = "partial_success"
                /\ result.stats.total_blobs =
                       Len(existingHashes) + Len(uploadedBlobNames)
           ELSE result.status = "error"

C6_Witness ==
    /\ pc = "done" /\ blobsToUpload # << >> /\ fatalError = Null
    /\ Len(pendingBlobs) > 0
    /\ Len(uploadedBlobNames) > 0
    /\ result.status = "partial_success"
    /\ result.stats.total_blobs = Len(existingHashes) + Len(uploadedBlobNames)

\* The requests of the current group that have not completed yet.
Running == {k \in DOMAIN inflight : ~inflight[k].done}

\* C7: the number of upload requests in flight never exceeds the strategy's
\* concurrency, and a group is dispatched only when every request of the
\* group before it has completed.
C7_ConcurrencyCap ==
    /\ [](pc \in {"group", "await"}
             => /\ Cardinality(Running) <= strategy.concurrency
                /\ Len(inflight) <= strategy.concurrency)
    /\ [][(pc = "group" /\ pc' = "await") => Running = {}]_vars

C7_Witness ==
    /\ pc = "await" /\ strategy.concurrency = 2
    /\ Cardinality(Running) = 2
    /\ groupStart > 0

C9_Original ==
    (pc = "done" /\ blobs # << >>) => existingBlobNames \subseteq ManifestIds

\* C9 amended: after a pass the persisted manifest holds every id of the
\* loaded manifest that is the id of a blob the pass discovered; the ids of
\* deleted or edited files are dropped from it.
C9_KeepsDiscovered ==
    (pc = "done" /\ blobs # << >>)
        => /\ (existingBlobNames \cap DiscoveredIds) \subseteq ManifestIds
           /\ ManifestIds \subseteq DiscoveredIds

C9_Witness ==
    /\ pc = "done" /\ blobs # << >> /\ passes > 1
    /\ existingBlobNames \ DiscoveredIds # {}
    /\ existingBlobNames \cap DiscoveredIds # {}
    /\ (existingBlobNames \cap DiscoveredIds) \subseteq ManifestIds

\* C10: every blob placed in an upload request of a pass has an id of
\* toUpload = ids(B) minus the manifest loaded at the start of the pass.
C10_OnlyNewSent ==
    pc \in {"loop", "group", "await", "done"}
        => /\ h_sentIds \subseteq (DiscoveredIds \ existingBlobNames)
           /\ \A k \in DOMAIN inflight :
                  BatchIds(inflight[k].batchBlobs)
                      \subseteq (DiscoveredIds \ existingBlobNames)

C10_Witness ==
    /\ pc = "await" /\ passes > 1
    /\ existingHashes # << >>
    /\ h_sentIds # {}
    /\ h_sentIds \subseteq (DiscoveredIds \ existingBlobNames)

\* C11: a retrieval request is sent only by a searchContext whose own
\* indexProject pass has returned, with a status other than error; when the
\* pass returned error the call returns the pass's message after the words
\* "Failed to index project" and sends no retrieval request.
C11_SyncBeforeQuery ==
    /\ [][h_tool'.retrievals # h_tool.retrievals
             => /\ pc = "done"
                /\ tool.at \in {"indexing", "retrieving"}
                /\ result.status \in {"success", "partial_success"}]_vars
    /\ [][(tool.at = "indexing" /\ tool'.at # "indexing"
              /\ result.status = "error")
             => /\ tool'.at = "returned"
                /\ tool'.text = ErrIndex(result.message)
                /\ h_tool'.retrievals = h_tool.retrievals]_vars

C11_Witness ==
    /\ tool.at = "returned" /\ pc = "done"
    /\ result.status = "error"
    /\ tool.text = ErrIndex(result.message)
    /\ indexFile.json = "array" /\ indexFile.data # << >>
    /\ uploadedBlobNames # << >>

\* C12: whatever the upload and retrieval requests do, indexProject returns
\* an IndexResult with a status and a message and the search_context call
\* returns a text.
C12_NothingEscapes ==
    /\ pc = "done"
           => /\ result.status \in {"success", "partial_success", "error"}
              /\ "message" \in DOMAIN result
              /\ result.message # Null
    /\ tool.at = "returned" => tool.text # << >>
    /\ tool.at \in {"idle", "indexing", "retrieving", "returned"}
    /\ pc \in {"idle", "loop", "group", "await", "done"}

C12_Witness ==
    /\ tool.at = "returned"
    /\ tool.text = searchCaught(MsgForbidden)
    /\ h_tool.retrievals > 0
    /\ result.status = "partial_success"
    /\ fatalError = MsgCert

\* C13 as stated: a pass in which a batch was confirmed returns a result
\* that is not error and counts the confirmed ids, also when a write of the
\* manifest failed.
C13_Original ==
    (pc = "done" /\ h_passReturned # {})
        => /\ result.status # "error"
           /\ HasStats(result)
           /\ result.stats.new_blobs = Cardinality(h_passReturned)

\* C13 amended: a pass in which a batch was confirmed and no write of the
\* manifest failed returns a result that is not error, counts the confirmed
\* ids in new_blobs and leaves them in the persisted manifest.
C13_ProgressReported ==
    (pc = "done" /\ h_passReturned # {} /\ ~h_writeFailed)
        => /\ result.status # "error"
           /\ HasStats(result)
           /\ result.stats.new_blobs = Cardinality(h_passReturned)
           /\ h_passReturned \subseteq ManifestIds

C13_Witness ==
    /\ pc = "done" /\ h_passReturned # {} /\ ~h_writeFailed
    /\ fatalError # Null
    /\ result.status = "partial_success"
    /\ result.stats.new_blobs = Cardinality(h_passReturned)
    /\ DiscoveredIds \ h_passReturned # {}

\* C14: a pass in which a write of the manifest failed, after a group, at
\* the final save or at the save of a pass without uploads, ends at that
\* write and returns status error with the error of the write.
C14_WriteFailureIsError ==
    h_writeFailed
        => /\ pc = "done"
           /\ result.status = "error"
           /\ result.message = MsgWrite

C14_Witness ==
    /\ h_writeFailed /\ pc = "done"
    /\ result.status = "error"
    /\ uploadedBlobNames # << >>
    /\ indexFile.json = "invalid"

\* The manifest files that do not hold an array of ids of discovered blobs.
UnusableManifests ==
    {file \in ManifestFiles :
        file.json # "array" \/ \A k \in DOMAIN file.data : Len(file.data[k]) < 2}

\* C15: a pass that finds files and a manifest file that is absent,
\* unreadable, not JSON or not an array of strings goes on to upload every
\* discovered blob, with nothing taken for existing.
C15_LoadNeverFails ==
    [][(passes' = passes + 1 /\ indexFile \in UnusableManifests
           /\ DOMAIN tree # {})
          => /\ pc' = "loop"
             /\ existingHashes' = << >>
             /\ BatchIds(blobsToUpload') = BatchIds(blobs')]_vars

\* C16: whenever the manifest file is read, while it is saved, after the
\* save, or after a crash in the middle of it, the reader gets the previous
\* manifest or the new one.
C16_AtomicSave ==
    store.at # "none"
        => /\ ~parseThrows(store.text)
           /\ readIndex(store.text) \in {store.previous, store.content}

\* The validation texts of searchContextTool.
ValidationTexts ==
    {ErrQuery, ErrPath} \cup
    {ErrNoPath(p) : p \in Paths \ {Null}} \cup {ErrNotDir(p) : p \in Paths \ {Null}}

\* C20: a call with a missing query, a missing project_root_path, a path
\* that does not exist or a path that is not a directory returns a
\* validation text, creates no IndexManager, starts no pass, sends no
\* request and leaves the manifest file alone.
C20_ValidationIsLocal ==
    [][(h_tool'.calls = h_tool.calls + 1
           /\ (h_tool'.query \in {Null, ""}
                 \/ h_tool'.projectRootPath \in {Null, "", "/missing", "/file"}))
          => /\ tool'.at = "returned"
             /\ tool'.text \in ValidationTexts
             /\ h_tool'.managers = h_tool.managers
             /\ h_tool'.retrievals = h_tool.retrievals
             /\ UNCHANGED <<indexFile, pc, passes, result, passVars, histVars>>]_vars

C20_Witness ==
    /\ tool.at = "returned"
    /\ tool.text = ErrNotDir("/file")
    /\ h_tool.query = "q"
    /\ h_tool.managers = 1 /\ h_tool.calls = 2
    /\ h_tool.retrievals > 0
    /\ indexFile.data # << >>

\* C17: two blobs get the same name from calculateBlobName if and only if
\* they have the same path and the same content.
C17_NameInjective ==
    hashed.done
        => ((hashed.id1 = hashed.id2)
               <=> (hashed.b1.path = hashed.b2.path
                      /\ hashed.b1.content = hashed.b2.content))

\* The contents of the blobs of the text, one after the other.
SplitContents == Join([c \in DOMAIN split.blobs |-> split.blobs[c].content])

\* The number of lines of a text: its \n, its \r not followed by \n, and one
\* more when the text does not end with a terminator.
LineCount(content) ==
    Cardinality({i \in DOMAIN content :
                    \/ content[i] = LF
                    \/ content[i] = CR /\ ~(i < Len(content) /\ content[i + 1] = LF)})
    + (IF content # << >> /\ content[Len(content)] \notin {LF, CR} THEN 1 ELSE 0)

\* C18: the contents of the blobs of a text, concatenated in order, are the
\* text.
C18_ChunksRebuildText == split.done => SplitContents = split.content

C18_Witness ==
    /\ split.done /\ Len(split.blobs) = 3
    /\ split.maxLinesPerBlob = 1
    /\ split.content = <<CR, LF, CR, "x">>
    /\ SplitContents = split.content

\* C19: a text of L lines gives one blob with the path of the file when
\* L <= k, and ceil(L/k) blobs named path#chunk{i}of{n}, i = 1..n in order,
\* when L > k: the first n - 1 hold k lines each and the last holds the rest.
C19_ChunkCount ==
    split.done =>
        LET L == LineCount(split.content)
            k == split.maxLinesPerBlob
            n == Len(split.blobs)
        IN IF L <= k
           THEN split.blobs = <<[path |-> FilePath, content |-> split.content]>>
           ELSE /\ n * k >= L /\ (n - 1) * k < L
                /\ \A i \in 1..n :
                      /\ split.blobs[i].path =
                            FilePath \o <<"#chunk", ToString(i), "of", ToString(n)>>
                      /\ LineCount(split.blobs[i].content) =
                            IF i < n THEN k ELSE L - (n - 1) * k
                /\ SplitContents = split.content

C19_Witness ==
    /\ split.done /\ split.maxLinesPerBlob = 2
    /\ LineCount(split.content) = 3
    /\ Len(split.blobs) = 2
    /\ split.blobs[2].path = FilePath \o <<"#chunk", "2", "of", "2">>
    /\ LineCount(split.blobs[1].content) = 2

\* C21: when the first call of the operation fails with HTTP 401, HTTP 403,
\* a certificate failure or an unclassified failure, retryRequest throws
\* after that one call, without a wait and without a second call; for the
\* unclassified failure the error thrown has the message of the original
\* error.
C21_NoRetryForFatal ==
    (retry.at # "none" /\ Len(retry.outcomes) >= 1
        /\ retry.outcomes[1] \in {"http401", "http403", "cert", "other"})
        => /\ retry.at = "thrown"
           /\ retry.calls = 1
           /\ retry.outcomes = <<retry.outcomes[1]>>
           /\ retry.waits = << >>
           /\ retry.outcomes[1] = "other" => retry.error = OriginalMessage("other")

C21_Witness ==
    /\ retry.at = "thrown" /\ retry.maxRetries = 3
    /\ retry.outcomes = <<"other">>
    /\ retry.calls = 1 /\ retry.waits = << >>
    /\ retry.error = MsgOther

\* The failures retryRequest takes for transient.
Transient == {"ECONNREFUSED", "ETIMEDOUT", "ENOTFOUND", "http500"}

\* C22: a call of the operation that fails with connection refused, timeout,
\* DNS failure or HTTP >= 500 is followed by a wait of retryDelay * 2^attempt
\* (attempt from 0) and another call, unless it was call number maxRetries:
\* then retryRequest throws the network error without a wait.  There are
\* never more than maxRetries calls, and a call that succeeds ends
\* retryRequest at once.
C22_Backoff ==
    retry.at # "none" =>
        /\ retry.calls = Len(retry.outcomes)
        /\ retry.calls <= retry.maxRetries
        /\ \A i \in 1..(Len(retry.outcomes) - 1) : retry.outcomes[i] \in Transient
        /\ \A i \in DOMAIN retry.waits :
               retry.waits[i] = retry.retryDelay * 2^(i - 1)
        /\ retry.at \in {"returned", "thrown"}
               => Len(retry.waits) = retry.calls - 1
        /\ retry.at = "sleeping"
               => /\ Len(retry.waits) = retry.calls
                  /\ retry.calls < retry.maxRetries
                  /\ retry.outcomes[retry.calls] \in Transient
        /\ retry.at = "returned" => retry.outcomes[retry.calls] = "ok"
        /\ (retry.at = "thrown" /\ retry.outcomes[retry.calls] \in Transient)
               => /\ retry.calls = retry.maxRetries
                  /\ retry.error \in {MsgRefused, MsgTimeout, MsgDns, MsgHttp500}
        /\ retry.at = "loop"
               => /\ Len(retry.waits) = retry.calls
                  /\ retry.calls < retry.maxRetries

C22_Witness ==
    /\ retry.at = "thrown" /\ retry.maxRetries = 3 /\ retry.retryDelay = 2000
    /\ retry.outcomes = <<"ETIMEDOUT", "http500", "ECONNREFUSED">>
    /\ retry.waits = <<2000, 4000>>
    /\ retry.calls = 3
    /\ retry.error = MsgRefused

\* C23: for blob counts m <= n the strategy of m has a batchSize, a
\* concurrency and a timeout that are at most those of the strategy of n,
\* and every strategy has a batchSize and a concurrency of at least 1.
C23_StrategyMonotone ==
    strat.done =>
        /\ strat.sm.batchSize >= 1 /\ strat.sm.concurrency >= 1
        /\ strat.sn.batchSize >= 1 /\ strat.sn.concurrency >= 1
        /\ strat.m <= strat.n
               => /\ strat.sm.batchSize <= strat.sn.batchSize
                  /\ strat.sm.concurrency <= strat.sn.concurrency
                  /\ strat.sm.timeout <= strat.sn.timeout

C23_Witness ==
    /\ strat.done /\ strat.m = 499 /\ strat.n = 2000
    /\ strat.sm.batchSize < strat.sn.batchSize
    /\ strat.sm.concurrency < strat.sn.concurrency
    /\ strat.sm.timeout < strat.sn.timeout

\* What a first pass that uploaded everything leaves: every discovered blob
\* was placed in one batch of the one round, every batch was dispatched, the
\* manifest file holds the id of every discovered blob once, and the result
\* is success with new_blobs = |blobs| and existing_blobs = 0.
AllUploadedOnce ==
    /\ retryRound = 1
    /\ Join(batches) = blobs
    /\ groupStart >= Len(batches)
    /\ h_sentIds = DiscoveredIds
    /\ indexFile.exists /\ indexFile.json = "array"
    /\ Len(indexFile.data) = Len(blobs)
    /\ ManifestIds = DiscoveredIds
    /\ result.status = "success"
    /\ result.stats.new_blobs = Len(blobs)
    /\ result.stats.existing_blobs = 0

C25_PayloadIsManifest ==
    [][h_tool'.retrievals # h_tool.retrievals
          => /\ h_tool'.payload.added_blobs = indexFile.data
             /\ indexFile.exists /\ indexFile.json = "array"
             /\ h_tool'.payload.added_blobs =
                    AllBlobNames(existingHashes, uploadedBlobNames)
             /\ SeqToSet(h_tool'.payload.added_blobs) =
                    SeqToSet(existingHashes) \cup h_passReturned
             /\ h_tool'.payload.deleted_blobs = << >>
             /\ h_tool'.payload.information_request = h_tool'.query]_vars

C25_Witness ==
    /\ tool.at = "retrieving" /\ tool.attempt = 1
    /\ h_tool.calls = 2
    /\ existingHashes # << >> /\ uploadedBlobNames # << >>
    /\ h_tool.payload.added_blobs = existingHashes \o uploadedBlobNames
    /\ h_tool.payload.deleted_blobs = << >>

\* C26: while an IndexManager is between the load of the manifest and its
\* final save, every write of the manifest file is a write of that
\* IndexManager, also when a second search_context call for the project
\* arrives in the meantime.
C26_ExclusiveWriter ==
    [][\A i \in Managers :
          (overlap.at = "serving" /\ overlap.manager[i].at = "uploading"
              /\ overlap'.writes # overlap.writes)
              => overlap'.writer = i]_vars

\* C27: a pass that had blobs to upload and met no fatal error returns
\* success exactly when no blob is pending at the end, error exactly when
\* blobs are pending and nothing was accepted and nothing existed before,
\* and partial_success in every other case.
C27_StatusByResidue ==
    (pc = "done" /\ blobsToUpload # << >> /\ fatalError = Null)
        => /\ result.status = "success" <=> Len(pendingBlobs) = 0
           /\ result.status = "error"
                  <=> /\ Len(pendingBlobs) > 0
                      /\ Len(uploadedBlobNames) = 0
                      /\ Len(existingHashes) = 0
           /\ result.status = "partial_success"
                  <=> /\ Len(pendingBlobs) > 0
                      /\ Len(uploadedBlobNames) + Len(existingHashes) > 0

C27_Witness ==
    /\ pc = "done" /\ blobsToUpload # << >> /\ fatalError = Null
    /\ Len(pendingBlobs) > 0
    /\ Len(uploadedBlobNames) = 0 /\ Len(existingHashes) > 0
    /\ result.status = "partial_success"

\* A request of the current group ended with a fatal result.
FatalSeen ==
    fatalError # Null
        \/ \E k \in DOMAIN inflight : inflight[k].done /\ inflight[k].result.fatal

\* The failures after which a request of the current group is tried again.
Retried == {inflight[k].retrying : k \in DOMAIN inflight} \ {Null}

\* The requests of the current group that ended with one of the errors.
EndedWith(errors) ==
    {k \in DOMAIN inflight : inflight[k].done /\ inflight[k].result.error \in errors}

\* C28 as stated: a request is never tried again after a 401, a 403, a
\* certificate failure or a DNS failure, and a request that ends with one
\* of them is fatal; after a fatal result no group is dispatched in the
\* pass; a request that ends with connection refused, timeout or HTTP >= 500
\* is not fatal.
C28_Original ==
    /\ [](Retried \cap {"http401", "http403", "cert", "ENOTFOUND"} = {})
    /\ [](\A k \in EndedWith({MsgToken, MsgForbidden, MsgCert, MsgDns}) :
             inflight[k].result.fatal)
    /\ [](\A k \in EndedWith({MsgRefused, MsgTimeout, MsgHttp500}) :
             ~inflight[k].result.fatal)
    /\ [][FatalSeen => ~(pc = "group" /\ pc' = "await")]_vars

\* C28 amended: a request is never tried again after a 401, a 403 or a
\* certificate failure, and a request that ends with one of them is fatal; a
\* request is tried again after a DNS failure as after any transient
\* failure, and is fatal when its last attempt, number maxRetries, fails
\* with a DNS failure; after a fatal result no group is dispatched in the
\* pass; a request that ends with connection refused, timeout or HTTP >= 500
\* is not fatal.
C28_FatalClasses ==
    /\ [](Retried \cap {"http401", "http403", "cert"} = {})
    /\ [](\A k \in EndedWith({MsgToken, MsgForbidden, MsgCert}) :
             inflight[k].result.fatal)
    /\ [](\A k \in EndedWith({MsgDns}) :
             inflight[k].result.fatal /\ inflight[k].attempt = maxRetries - 1)
    /\ [](\A k \in EndedWith({MsgRefused, MsgTimeout, MsgHttp500}) :
             ~inflight[k].result.fatal /\ inflight[k].attempt = maxRetries - 1)
    /\ [][FatalSeen => ~(pc = "group" /\ pc' = "await")]_vars

C28_Witness ==
    /\ pc = "group" /\ fatalError = MsgDns
    /\ groupStart < Len(batches)
    /\ EndedWith({MsgDns}) # {}
    /\ \A k \in EndedWith({MsgDns}) :
          inflight[k].result.fatal /\ inflight[k].attempt = maxRetries - 1

\* failed_files or failed_batches of a result with stats, 0 when it has
\* neither.
FailedCount(r) ==
    IF "failed_files" \in DOMAIN r.stats THEN r.stats.failed_files
    ELSE IF "failed_batches" \in DOMAIN r.stats THEN r.stats.failed_batches
    ELSE 0

\* C30: when a pass returns a result with counts, every blob of a batch
\* that failed softly after the retries of a transient failure and that was
\* not sent again since is counted in the failed count of the result.
C30_NoSilentDrop ==
    (pc = "done" /\ HasStats(result))
        => /\ FailedCount(result) >= Cardinality(h_owed)
           /\ h_owed \subseteq BatchIds(pendingBlobs)

\* The ids confirmed by the responses of the requests of the current group.
GroupConfirmed ==
    UNION {SeqToSet(inflight[k].result.blobNames) : k \in DOMAIN inflight}

\* C29: the results of a group are handled, and the pass goes on to its end,
\* only when every request of the group has its result, a fatal one among
\* them or not; and a pass that met a fatal error ends with every id
\* confirmed in it, by the siblings of the fatal batch and by earlier
\* groups, in the manifest file and counted in new_blobs.
C29_SiblingsComplete ==
    /\ [][(pc = "await" /\ pc' # "await")
             => /\ \A k \in DOMAIN inflight : inflight[k].done
                /\ GroupConfirmed \subseteq SeqToSet(uploadedBlobNames')]_vars
    /\ []((pc = "done" /\ fatalError # Null /\ blobsToUpload # << >>)
             => /\ h_passReturned \subseteq ManifestIds
                /\ h_passReturned # {}
                       => /\ HasStats(result)
                          /\ result.stats.new_blobs = Cardinality(h_passReturned))

C29_Witness ==
    /\ pc = "done" /\ fatalError # Null
    /\ strategy.concurrency = 2 /\ groupStart = 4
    /\ Len(inflight) = 0
    /\ result.status = "partial_success"
    /\ result.stats.new_blobs = 2 * strategy.batchSize + 10
    /\ Cardinality(ManifestIds) = 2 * strategy.batchSize + 10

\* C31: a pass runs at most maxRetryRounds upload rounds; a blob is placed in
\* at most one batch of a round and in at most maxRetryRounds batches of a
\* pass; a batch is posted at most maxRetries times (a request has made
\* attempt POSTs that failed and were slept after, and one more when it is
\* done).
C31_BoundedWork ==
    /\ retryRound <= maxRetryRounds
    /\ pc \in {"group", "await"} => retryRound < maxRetryRounds
    /\ \A id \in DOMAIN h_placed.round : h_placed.round[id] <= 1
    /\ \A id \in DOMAIN h_placed.pass : h_placed.pass[id] <= maxRetryRounds
    /\ \A k \in DOMAIN inflight :
          inflight[k].attempt + (IF inflight[k].done THEN 1 ELSE 0) <= maxRetries

\* In the third round of a pass a batch was posted three times, and its
\* blobs were in a batch of each round.
C31_Witness ==
    /\ pc = "await"
    /\ retryRound = maxRetryRounds - 1
    /\ \E k \in DOMAIN inflight :
          /\ inflight[k].done
          /\ inflight[k].attempt = maxRetries - 1
          /\ \A id \in BatchIds(inflight[k].batchBlobs) :
                h_placed.pass[id] = maxRetryRounds /\ h_placed.round[id] = 1

\* C32: the first round of a pass uses the batch size of the strategy and
\* every later round the larger of 5 and half the size of the round before,
\* rounded down; within a pass the batch size never grows and is never
\* below 5, and no batch of a round holds more blobs than the batch size of
\* the round.
C32_BatchSizeHalves ==
    /\ [](pc \in {"group", "await"} =>
            /\ currentBatchSize >= 5
            /\ \A k \in DOMAIN batches : Len(batches[k]) <= currentBatchSize
            /\ \A k \in DOMAIN inflight :
                  Len(inflight[k].batchBlobs) <= currentBatchSize)
    /\ [][/\ (pc = "loop" /\ pc' = "group" /\ retryRound = 0) =>
                currentBatchSize' = strategy.batchSize
          /\ (pc = "loop" /\ pc' = "group" /\ retryRound > 0) =>
                currentBatchSize' = IF currentBatchSize \div 2 > 5
                                    THEN currentBatchSize \div 2 ELSE 5
          /\ passes' = passes => currentBatchSize' <= currentBatchSize]_vars

\* The third round of a pass, whose batch size is at the minimum for the
\* second time, with a batch of that size.
C32_Witness ==
    /\ pc = "group"
    /\ retryRound = 2
    /\ strategy.batchSize = 10
    /\ currentBatchSize = 5
    /\ \E k \in DOMAIN batches : Len(batches[k]) = currentBatchSize

\* C33: a pass that discovers blobs all of whose ids are in the loaded
\* manifest sends no upload request, leaves in the manifest file exactly the
\* discovered ids (the ids of the loaded manifest that were discovered, each
\* once) and returns success with new_blobs = 0 and total_blobs =
\* existing_blobs = the number of these ids.
C33_NothingToUpload ==
    [][(/\ passes' = passes + 1
        /\ collectFiles(tree) # << >>
        /\ indexFile.json = "array"
        /\ BatchIds(collectFiles(tree)) \subseteq SeqToSet(indexFile.data))
       => LET kept == BatchIds(collectFiles(tree)) \cap SeqToSet(indexFile.data)
          IN /\ pc' = "done"
             /\ inflight' = << >>
             /\ h_sentIds' = {}
             /\ indexFile'.exists /\ indexFile'.json = "array"
             /\ SeqToSet(indexFile'.data) = kept
             /\ Len(indexFile'.data) = Cardinality(kept)
             /\ result'.status = "success"
             /\ result'.stats.new_blobs = 0
             /\ result'.stats.existing_blobs = Cardinality(kept)
             /\ result'.stats.total_blobs = result'.stats.existing_blobs]_vars

\* A pass over two files found both ids in the manifest and returned at
\* once, and the manifest holds these two ids and no other.
C33_Witness ==
    /\ pc = "done"
    /\ passes = 1
    /\ Len(blobs) = 2
    /\ blobsToUpload = << >>
    /\ h_sentIds = {}
    /\ result.status = "success"
    /\ result.stats.new_blobs = 0
    /\ result.stats.total_blobs = 2
    /\ SeqToSet(indexFile.data) = BatchIds(blobs)

\* C34: a pass that discovers no blob returns status error, sends no upload
\* request and leaves the manifest file as it was.
C34_EmptyProjectIsError ==
    [][(passes' = passes + 1 /\ collectFiles(tree) = << >>)
       => /\ pc' = "done"
          /\ result'.status = "error"
          /\ inflight' = << >>
          /\ h_sentIds' = {}
          /\ indexFile' = indexFile]_vars

\* A pass over a project without files returned an error, and the manifest
\* file still holds the ids an earlier pass left in it.
C34_Witness ==
    /\ pc = "done"
    /\ passes = 1
    /\ blobs = << >>
    /\ result.status = "error"
    /\ h_sentIds = {}
    /\ indexFile.exists /\ Len(indexFile.data) = ResumeIds

\* The POSTs the requests of the group may still make.
RECURSIVE PostsLeft(_)
PostsLeft(reqs) ==
    IF reqs = << >> THEN 0
    ELSE (IF Head(reqs).done THEN 0 ELSE maxRetries - Head(reqs).attempt)
         + PostsLeft(Tail(reqs))

\* An upper bound of the steps a group, and a round, can take.
GroupCost == 2 + maxRetries * strategy.concurrency
RoundCost == 2 + Len(blobsToUpload) * GroupCost

\* The groups of the round not dispatched yet.
GroupsLeft ==
    IF groupStart >= Len(batches) THEN 0
    ELSE (Len(batches) - groupStart + strategy.concurrency - 1)
            \div strategy.concurrency

\* An upper bound of the steps the pass can still take.
StepsLeft ==
    CASE pc = "loop" -> 1 + (maxRetryRounds - retryRound) * RoundCost
      [] pc = "group" -> 2 + (maxRetryRounds - retryRound - 1) * RoundCost
                           + GroupsLeft * GroupCost
      [] pc = "await" -> 3 + (maxRetryRounds - retryRound - 1) * RoundCost
                           + (GroupsLeft - 1) * GroupCost + PostsLeft(inflight)
      [] OTHER -> 0

\* C35: a pass that was started returns, with status success,
\* partial_success or error, whenever every request it awaits returns or
\* fails; while it runs, every step brings it nearer to its return.
C35_PassTerminates ==
    /\ [](pc = "done" => result.status \in {"success", "partial_success", "error"})
    /\ [](pc \in {"idle", "loop", "group", "await", "done"})
    /\ [](StepsLeft >= 0)
    /\ [][(pc \in {"loop", "group", "await"}) => (StepsLeft' < StepsLeft)]_vars
    /\ (pc \in {"loop", "group", "await"}) ~> (pc = "done")

\* A pass returned after every attempt of every round had failed.
C35_Witness ==
    /\ pc = "done"
    /\ retryRound = maxRetryRounds
    /\ faults = maxRetries * maxRetryRounds
    /\ result.status = "error"

\* C36: an entry whose test by shouldExclude raised an error is reported as
\* not excluded, and the walk does not stop at that entry: it goes on to the
\* entries that follow it in the directory.
C36_FailsOpen ==
    \A t \in DOMAIN walk.tested :
        walk.tested[t].raised =>
            /\ ~walk.tested[t].excluded
            /\ ~(walk.at = "thrown" /\ walk.i = walk.tested[t].entry)

\* C37: when a pass has returned success, the id of every blob it discovered
\* is in the manifest file, whatever blob_names the responses of its
\* requests held.
C37_SuccessCoversAll ==
    (pc = "done" /\ result.status = "success")
        => /\ indexFile.exists /\ indexFile.json = "array"
           /\ DiscoveredIds \subseteq ManifestIds

\* C38: when a pass that had blobs to upload returns a result that is not an
\* error, existing_blobs + new_blobs + the failed count of the result is the
\* number of ids it discovered, whether the rounds were used up or a fatal
\* error stopped the pass (the server confirming whole batches only).
C38_CountsAddUp ==
    (pc = "done" /\ blobsToUpload # << >> /\ result.status # "error")
        => /\ HasStats(result)
           /\ result.stats.existing_blobs + result.stats.new_blobs
                 + FailedCount(result) = Cardinality(DiscoveredIds)

\* The requests of the group whose response held no blob_names.
AnsweredEmpty == {k \in DOMAIN inflight : inflight[k].outcome = "empty"}

\* C39: a request whose response has an empty or missing blob_names list has
\* a result that is a failure and not fatal; when the results of its group
\* are handled the blobs of its batch are put on the list of the blobs to
\* send again, no id of its batch is in the manifest file, and fatalError is
\* set only if another request of the group was fatal; at the end of the
\* round that list becomes the pending blobs of the next round.
C39_EmptyIsSoftFailure ==
    /\ [](\A k \in AnsweredEmpty :
             /\ inflight[k].done
             /\ ~inflight[k].result.success
             /\ ~inflight[k].result.fatal)
    /\ [][(pc = "await" /\ pc' # "await")
          => /\ \A k \in AnsweredEmpty :
                   /\ SeqToSet(inflight[k].batchBlobs)
                         \subseteq SeqToSet(failedBlobsInThisRound')
                   /\ BatchIds(inflight[k].batchBlobs)
                         \cap SeqToSet(indexFile'.data) = {}
                   /\ BatchIds(inflight[k].batchBlobs)
                         \cap SeqToSet(uploadedBlobNames') = {}
             /\ (fatalError = Null /\ fatalError' # Null)
                   => \E j \in DOMAIN inflight \ AnsweredEmpty :
                          inflight[j].result.fatal]_vars
    /\ [][(pc = "group" /\ pc' = "loop")
          => pendingBlobs' = failedBlobsInThisRound]_vars

\* The results of a group of two requests were handled: one had a response
\* without names and its batch is on the list to send again, the other was
\* confirmed and its ids are in the manifest file.
C39_Witness ==
    /\ pc = "group"
    /\ fatalError = Null
    /\ Len(inflight) = 2
    /\ \E k \in AnsweredEmpty, j \in DOMAIN inflight :
          /\ inflight[j].result.success
          /\ BatchIds(inflight[j].batchBlobs) \subseteq ManifestIds
          /\ SeqToSet(inflight[k].batchBlobs) \subseteq SeqToSet(failedBlobsInThisRound)
          /\ BatchIds(inflight[k].batchBlobs) \cap ManifestIds = {}

\* The last pass returned success and the manifest file holds exactly the
\* ids of the blobs of the project as it is now.
Converged ==
    /\ pc = "done"
    /\ result.status = "success"
    /\ indexFile.exists /\ indexFile.json = "array"
    /\ ManifestIds = BatchIds(collectFiles(tree))

\* No pass is running, the tree will not change any more, and the passes
\* left are two more than the requests that may still fail.
Settling ==
    /\ pc \in {"idle", "done"}
    /\ edits = limits.edits
    /\ limits.passes - passes >= 2 + (limits.faults - faults)

\* C40 as stated: once the tree has stopped changing and the requests have
\* stopped failing, the passes reach one that returns success with the
\* manifest equal to the ids of the discovered blobs, for every project.
C40_Original == Settling ~> Converged

\* C40 amended: the same for a project that holds at least one blob; from
\* that pass on the manifest stays equal to these ids, and every later pass
\* uploads nothing and returns success.
C40_Converges ==
    /\ (Settling /\ DOMAIN tree # {}) ~> [](Converged)
    /\ [][(Converged /\ passes' = passes + 1)
          => /\ Converged'
             /\ h_sentIds' = {}
             /\ inflight' = << >>
             /\ result'.stats.new_blobs = 0]_vars

\* After a pass in which a request failed and an edit of the tree, a pass
\* returned success with the manifest equal to the discovered ids, and the
\* pass after it uploaded nothing.
C40_Witness ==
    /\ Converged
    /\ faults = limits.faults
    /\ edits = limits.edits
    /\ passes = limits.passes
    /\ h_prev.status = "success" /\ h_prev.covered
    /\ h_sentIds = {}
    /\ result.stats.new_blobs = 0
    /\ Len(blobs) = NSmall

====
